---- MODULE Spec2Model ----
(***************************************************************************)
(* LLM-Orc-Station: credential store (registery.ts), key lifecycle manager *)
(* and circuit breaker (keymngr.ts), router (router.ts), metrics           *)
(* (metrics.ts) and the retrying orchestrator (Orchestrator.ts).           *)
(*                                                                         *)
(* Time is Date.now() in milliseconds.  Key ids (uuid v4 in the source)    *)
(* are the integers 1, 2, 3, ... in order of creation; 0 stands for null,  *)
(* undefined and the empty string of the RotationEvent id fields.          *)
(***************************************************************************)
EXTENDS Integers, Sequences, FiniteSets, TLC

\* ------------------------------------------------------------------ bounds
Epoch == 1             \* Date.now() when initRegistry runs
MaxFailures == 3       \* dispatches that fail
MaxTicks == 2          \* Spec, SpecApi: ticks of the clock
MaxCalls == 1          \* Spec: direct calls of exported functions
MaxKeys == 7           \* Spec, SpecRoute: key ids ever created
LifeTicks == 5         \* SpecLife, SpecStatus, SpecRoute: ticks of the clock
LifeKeys == 9          \* SpecLife: key ids ever created
StatusKeys == 7        \* SpecStatus: key ids ever created by rotateKeys calls
SweepKeys == 10        \* SpecStatus: key ids ever created, after a timer sweep
StatusCalls == 2       \* SpecStatus: direct calls of exported functions
LifeCalls == 1         \* SpecLife: direct calls of exported functions
FlightTicks == 6       \* SpecFlight: ticks of the clock
FlightKeys == 8        \* SpecFlight: key ids ever created
ApiCalls == 3          \* SpecApi: direct calls of exported functions
RouteCalls == 2        \* SpecRoute: direct calls of exported functions
FallbackCalls == 2     \* SpecFallback: direct calls of exported functions
QueryTicks == 1        \* SpecQuery: ticks of the clock
QueryRequests == 2     \* SpecQuery: requests
ProbeTicks == 2        \* SpecProbe: ticks of the clock
StoreKeys == 9         \* SpecStore: key ids ever created
PruneKeys == 13        \* SpecPrune: key ids ever created
UsageKeys == 10        \* SpecUsage: key ids ever created
UsageCalls == 2        \* SpecUsage: direct calls of recordSuccess
CoolCalls == 3         \* SpecCooldown: direct calls of exported functions
CoolKeys == 9          \* SpecCooldown: key ids ever created
FrameKeys == 13        \* SpecFrame: key ids ever created
FrameCalls == 1        \* SpecFrame: direct calls of recordSuccess/recordFailure
FrameIds == 2          \* SpecFrame: outcomes are recorded on keys 1..FrameIds
RoundCalls == 8        \* SpecRound: calls of pickKey and recordSuccess
SweepTicks == 30       \* SpecSweep: clock ticks, three rotation intervals
LiveKeys == 18         \* SpecSweep: key ids ever created
LiveCalls == 1         \* SpecSweep: direct calls of recordSuccess
TimerStarts == 3       \* SpecTimers: cleanup timers ever scheduled
TimerKeys == 12        \* SpecTimers: key ids ever created
StoreCalls == 2        \* SpecStore: direct calls of addKey

\* --------------------------------------------------------------- constants
ROTATION_INTERVAL_MS == 300000
GRACE_PERIOD_MS == 120000
MAX_USAGE_BEFORE_ROTATE == 100
BREAKER_FAIL_THRESHOLD == 3
BREAKER_COOLDOWN_MS == 30000
CLEANUP_INTERVAL_MS == 30000
MAX_REVOKED_KEPT == 5
MAX_RETRIES == 2

\* one tick of the clock: the period of the cleanup timer
TickMs == CLEANUP_INTERVAL_MS

NULL == 0

\* Object.keys(models), in insertion order
ModelNames == <<"flash", "pro", "mock">>

Tiers == {"flash", "pro", "mock"}

\* Model.name of each entry of `models`
name(m) ==
  CASE m = "flash" -> "gemini-flash"
    [] m = "pro" -> "gemini-pro"
    [] m = "mock" -> "mock"

avgLatency(m) ==
  CASE m = "flash" -> 80
    [] m = "pro" -> 200
    [] m = "mock" -> 30

\* names that `models`, an object literal, inherits from Object.prototype
InheritedNames == {"constructor", "toString", "__proto__"}

\* models[modelName]: an entry of `models`, a value found on the prototype
\* chain (truthy, and without an array `keys`), or undefined
Lookup(modelName) ==
  CASE modelName \in Tiers -> "model"
    [] modelName \in InheritedNames -> "inherited"
    [] OTHER -> "undefined"

Complexities == {"simple", "medium", "complex"}

Policies == {"cost", "latency", "fallback"}

COST_PREFERENCE(c) ==
  CASE c = "simple" -> <<"mock", "flash", "pro">>
    [] c = "medium" -> <<"flash", "pro", "mock">>
    [] c = "complex" -> <<"pro", "flash", "mock">>

\* the ways callModel can settle; a thrown Error carries a message that names
\* the model it was sent to
Outcomes == {"ok", "fail"}

VARIABLES
  now,          \* Date.now()
  keys,         \* every ApiKey object ever made, by id
  models,       \* models[m].keys: the ids in each model's key array
  rotationLog,  \* registery.ts rotationLog
  metrics,      \* metrics.models: per Model.name requests / errors
  logs,         \* metrics.ts logs
  reqs,         \* the handleQuery calls, each at its await or returned
  rotationTimer,  \* keymngr.ts rotationTimer is set
  cleanupTimers,  \* number of live setInterval(cleanupKeys, 30_000) timers
  calls,        \* number of direct API calls made so far
  op            \* the operation of the last step with its arguments and result

vars == <<now, keys, models, rotationLog, metrics, logs, reqs,
          rotationTimer, cleanupTimers, calls, op>>

\* ----------------------------------------------------------------- helpers
Range(s) == {s[i] : i \in DOMAIN s}

\* Array.prototype.sort((a, b) => key(a) - key(b)): ascending and stable
RECURSIVE InsertSorted(_, _, _)
InsertSorted(x, s, key) ==
  IF s = <<>> THEN <<x>>
  ELSE IF key[x] <= key[Head(s)] THEN <<x>> \o s
  ELSE <<Head(s)>> \o InsertSorted(x, Tail(s), key)

RECURSIVE StableSort(_, _)
StableSort(s, key) ==
  IF s = <<>> THEN <<>>
  ELSE InsertSorted(Head(s), StableSort(Tail(s), key), key)

\* ------------------------------------------------------------ registery.ts
makeKey(t) ==
  [createdAt |-> t, lastUsed |-> 0, usage |-> 0, status |-> "active",
   consecutiveFails |-> 0, breakerState |-> "closed", breakerOpenedAt |-> 0]

\* faulty variant of Usable: the cooldown counts as over at exactly 30 s
Usable_atBoundary(k, t) ==
  /\ k.status # "revoked"
  /\ k.breakerState = "open" => t - k.breakerOpenedAt >= BREAKER_COOLDOWN_MS

\* faulty variant of Usable: revoked keys pass the filter
Usable_ignoresStatus(k, t) ==
  k.breakerState = "open" => t - k.breakerOpenedAt > BREAKER_COOLDOWN_MS

\* the filter predicate of getUsableKeys, without its side effect
Usable(k, t) ==
  /\ k.status # "revoked"
  /\ k.breakerState = "open" => t - k.breakerOpenedAt > BREAKER_COOLDOWN_MS

\* getUsableKeys: the array it returns
getUsableKeys(ks, ids, t) == SelectSeq(ids, LAMBDA id : Usable(ks[id], t))

\* faulty variant of getUsableKeysEffect: the failure counter of a cooled-down
\* key is reset
getUsableKeysEffect_resetsFails(ks, ids, t) ==
  [id \in DOMAIN ks |->
     IF /\ id \in Range(ids)
        /\ Usable(ks[id], t)
        /\ ks[id].breakerState = "open"
     THEN [ks[id] EXCEPT !.breakerState = "half", !.consecutiveFails = 0]
     ELSE ks[id]]

\* faulty variant of getUsableKeysEffect: a cooled-down key is left open
getUsableKeysEffect_keepsOpen(ks, ids, t) == ks

\* faulty variant of getUsableKeysEffect: a cooled-down key is closed at once
getUsableKeysEffect_closes(ks, ids, t) ==
  [id \in DOMAIN ks |->
     IF /\ id \in Range(ids)
        /\ Usable(ks[id], t)
        /\ ks[id].breakerState = "open"
     THEN [ks[id] EXCEPT !.breakerState = "closed"]
     ELSE ks[id]]

\* getUsableKeys: the key objects after the call (open -> half on the keys
\* that pass the cooldown test)
getUsableKeysEffect(ks, ids, t) ==
  [id \in DOMAIN ks |->
     IF /\ id \in Range(ids)
        /\ Usable(ks[id], t)
        /\ ks[id].breakerState = "open"
     THEN [ks[id] EXCEPT !.breakerState = "half"]
     ELSE ks[id]]

\* faulty variant of pickKey: the first usable key, whatever its usage
pickKey_first(ks, ids, t) ==
  LET usable == getUsableKeys(ks, ids, t)
  IN  IF Len(usable) = 0 THEN NULL ELSE usable[1]

\* pickKey: the key it returns, NULL when there is none
pickKey(ks, ids, t) ==
  LET usable == getUsableKeys(ks, ids, t)
      sorted == StableSort(usable, [id \in Range(usable) |-> ks[id].usage])
  IN  IF Len(usable) = 0 THEN NULL ELSE sorted[1]

\* addKey on a configured model: the store with the new key pushed; its id is
\* NextId(st)
NextId(st) == Cardinality(DOMAIN st.keys) + 1

addKey(st, m, t) ==
  [st EXCEPT !.keys = st.keys @@ (NextId(st) :> makeKey(t)),
             !.models[m] = Append(st.models[m], NextId(st))]

\* initRegistry: two keys pushed to every model, in the order of `models`
RECURSIVE InitLoop(_, _, _)
InitLoop(st, names, t) ==
  IF names = <<>> THEN st
  ELSE InitLoop(addKey(addKey(st, Head(names), t), Head(names), t),
                Tail(names), t)

initRegistry(st, t) == InitLoop(st, ModelNames, t)

\* -------------------------------------------------------------- keymngr.ts
\* faulty variant of ReduceOldest: the comparison turned round
RECURSIVE ReduceOldest_newest(_, _, _)
ReduceOldest_newest(ks, a, rest) ==
  IF rest = <<>> THEN a
  ELSE ReduceOldest_newest(ks,
                           IF ks[a].createdAt > ks[Head(rest)].createdAt
                           THEN a ELSE Head(rest),
                           Tail(rest))

\* activeKeys.reduce((a, b) => a.createdAt < b.createdAt ? a : b)
RECURSIVE ReduceOldest(_, _, _)
ReduceOldest(ks, a, rest) ==
  IF rest = <<>> THEN a
  ELSE ReduceOldest(ks,
                    IF ks[a].createdAt < ks[Head(rest)].createdAt
                    THEN a ELSE Head(rest),
                    Tail(rest))

\* faulty variant of rotateKeys: no guard on activeKeys.length, so that a key
\* is added to a model without active keys
rotateKeys_noGuard(st, modelName, t) ==
  IF modelName \notin Tiers THEN st
  ELSE
    LET activeKeys == SelectSeq(st.models[modelName],
                                LAMBDA id : st.keys[id].status = "active")
    IN  IF Len(activeKeys) = 0 THEN addKey(st, modelName, t)
        ELSE
          LET newKeyId == NextId(st)
              added == addKey(st, modelName, t)
              oldest == ReduceOldest(st.keys, Head(activeKeys), Tail(activeKeys))
          IN  [added EXCEPT
                 !.keys[oldest].status = "deprecated",
                 !.rotationLog = Append(st.rotationLog,
                    [ts |-> t, modelName |-> modelName, newKeyId |-> newKeyId,
                     deprecatedKeyId |-> oldest, revokedKeyId |-> NULL])]

\* faulty variant of rotateKeys: the usage counter of the deprecated key is
\* reset
rotateKeys_resetsUsage(st, modelName, t) ==
  IF modelName \notin Tiers THEN st
  ELSE
    LET activeKeys == SelectSeq(st.models[modelName],
                                LAMBDA id : st.keys[id].status = "active")
    IN  IF Len(activeKeys) = 0 THEN st
        ELSE
          LET newKeyId == NextId(st)
              added == addKey(st, modelName, t)
              oldest == ReduceOldest(st.keys, Head(activeKeys), Tail(activeKeys))
          IN  [added EXCEPT
                 !.keys[oldest].status = "deprecated",
                 !.keys[oldest].usage = 0,
                 !.rotationLog = Append(st.rotationLog,
                    [ts |-> t, modelName |-> modelName, newKeyId |-> newKeyId,
                     deprecatedKeyId |-> oldest, revokedKeyId |-> NULL])]

\* faulty variant of rotateKeys: the oldest active key is deprecated and no
\* key is added
rotateKeys_noNewKey(st, modelName, t) ==
  IF modelName \notin Tiers THEN st
  ELSE
    LET activeKeys == SelectSeq(st.models[modelName],
                                LAMBDA id : st.keys[id].status = "active")
    IN  IF Len(activeKeys) = 0 THEN st
        ELSE
          LET oldest == ReduceOldest(st.keys, Head(activeKeys), Tail(activeKeys))
          IN  [st EXCEPT
                 !.keys[oldest].status = "deprecated",
                 !.rotationLog = Append(st.rotationLog,
                    [ts |-> t, modelName |-> modelName, newKeyId |-> NULL,
                     deprecatedKeyId |-> oldest, revokedKeyId |-> NULL])]

\* faulty variant of rotateKeys: the oldest active key is revoked at once
rotateKeys_revokes(st, modelName, t) ==
  IF modelName \notin Tiers THEN st
  ELSE
    LET activeKeys == SelectSeq(st.models[modelName],
                                LAMBDA id : st.keys[id].status = "active")
    IN  IF Len(activeKeys) = 0 THEN st
        ELSE
          LET newKeyId == NextId(st)
              added == addKey(st, modelName, t)
              oldest == ReduceOldest(st.keys, Head(activeKeys), Tail(activeKeys))
          IN  [added EXCEPT
                 !.keys[oldest].status = "revoked",
                 !.rotationLog = Append(st.rotationLog,
                    [ts |-> t, modelName |-> modelName, newKeyId |-> newKeyId,
                     deprecatedKeyId |-> oldest, revokedKeyId |-> NULL])]

rotateKeys(st, modelName, t) ==
  IF modelName \notin Tiers THEN st
  ELSE
    LET activeKeys == SelectSeq(st.models[modelName],
                                LAMBDA id : st.keys[id].status = "active")
    IN  IF Len(activeKeys) = 0 THEN st
        ELSE
          LET newKeyId == NextId(st)
              added == addKey(st, modelName, t)
              oldest == ReduceOldest(st.keys, Head(activeKeys), Tail(activeKeys))
          IN  [added EXCEPT
                 !.keys[oldest].status = "deprecated",
                 !.rotationLog = Append(st.rotationLog,
                    [ts |-> t, modelName |-> modelName, newKeyId |-> newKeyId,
                     deprecatedKeyId |-> oldest, revokedKeyId |-> NULL])]

\* [...rotationLog].reverse().find(e => e.deprecatedKeyId === id)?.ts ?? createdAt
deprecatedAt(st, id) ==
  LET hits == {i \in DOMAIN st.rotationLog :
                 st.rotationLog[i].deprecatedKeyId = id}
  IN  IF hits = {} THEN st.keys[id].createdAt
      ELSE st.rotationLog[CHOOSE i \in hits : \A j \in hits : j <= i].ts

\* faulty variant of GraceOver: the grace period counts as over at exactly 2 min
GraceOver_atBoundary(dAt, t) == t - dAt >= GRACE_PERIOD_MS

\* the grace-period test of cleanupKeys
GraceOver(dAt, t) == t - dAt > GRACE_PERIOD_MS

\* faulty variant of RevokeLoop: a revocation is not logged
RECURSIVE RevokeLoop_unlogged(_, _, _, _)
RevokeLoop_unlogged(st, modelName, ids, t) ==
  IF ids = <<>> THEN st
  ELSE
    LET id == Head(ids)
        st1 == IF /\ st.keys[id].status = "deprecated"
                  /\ GraceOver(deprecatedAt(st, id), t)
               THEN [st EXCEPT !.keys[id].status = "revoked"]
               ELSE st
    IN  RevokeLoop_unlogged(st1, modelName, Tail(ids), t)

\* the inner loop of cleanupKeys over the keys of one model
RECURSIVE RevokeLoop(_, _, _, _)
RevokeLoop(st, modelName, ids, t) ==
  IF ids = <<>> THEN st
  ELSE
    LET id == Head(ids)
        st1 == IF /\ st.keys[id].status = "deprecated"
                  /\ GraceOver(deprecatedAt(st, id), t)
               THEN [st EXCEPT
                       !.keys[id].status = "revoked",
                       !.rotationLog = Append(st.rotationLog,
                          [ts |-> t, modelName |-> modelName,
                           newKeyId |-> NULL, deprecatedKeyId |-> NULL,
                           revokedKeyId |-> id])]
               ELSE st
    IN  RevokeLoop(st1, modelName, Tail(ids), t)

\* faulty variant of Prune: the first 5 revoked keys are kept, the later ones
\* removed
Prune_keepsFirst(st, modelName) ==
  LET ids == st.models[modelName]
      revoked == SelectSeq(ids, LAMBDA id : st.keys[id].status = "revoked")
  IN  IF Len(revoked) > MAX_REVOKED_KEPT
      THEN LET toRemove ==
                 Range(SubSeq(revoked, MAX_REVOKED_KEPT + 1, Len(revoked)))
           IN  [st EXCEPT !.models[modelName] =
                             SelectSeq(ids, LAMBDA id : id \notin toRemove)]
      ELSE st

\* faulty variant of Prune: one revoked key removed per sweep
Prune_oneAtATime(st, modelName) ==
  LET ids == st.models[modelName]
      revoked == SelectSeq(ids, LAMBDA id : st.keys[id].status = "revoked")
  IN  IF Len(revoked) > MAX_REVOKED_KEPT
      THEN [st EXCEPT !.models[modelName] =
                         SelectSeq(ids, LAMBDA id : id # Head(revoked))]
      ELSE st

\* the pruning of revoked keys at the end of the loop body of cleanupKeys
Prune(st, modelName) ==
  LET ids == st.models[modelName]
      revoked == SelectSeq(ids, LAMBDA id : st.keys[id].status = "revoked")
  IN  IF Len(revoked) > MAX_REVOKED_KEPT
      THEN LET toRemove ==
                 Range(SubSeq(revoked, 1, Len(revoked) - MAX_REVOKED_KEPT))
           IN  [st EXCEPT !.models[modelName] =
                             SelectSeq(ids, LAMBDA id : id \notin toRemove)]
      ELSE st

RECURSIVE CleanupLoop(_, _, _)
CleanupLoop(st, names, t) ==
  IF names = <<>> THEN st
  ELSE CleanupLoop(
         Prune(RevokeLoop(st, Head(names), st.models[Head(names)], t),
               Head(names)),
         Tail(names), t)

cleanupKeys(st, t) == CleanupLoop(st, ModelNames, t)

RECURSIVE UsageLoop(_, _, _)
UsageLoop(st, names, t) ==
  IF names = <<>> THEN st
  ELSE
    LET overused == \E i \in DOMAIN st.models[Head(names)] :
                      LET k == st.keys[st.models[Head(names)][i]]
                      IN  k.status = "active" /\ k.usage >= MAX_USAGE_BEFORE_ROTATE
    IN  UsageLoop(IF overused THEN rotateKeys(st, Head(names), t) ELSE st,
                  Tail(names), t)

\* faulty variant of checkUsageBasedRotation: it stops at the first model it
\* has rotated
checkUsageBasedRotation_firstOnly(st, t) ==
  LET over == SelectSeq(ModelNames, LAMBDA m :
                 \E i \in DOMAIN st.models[m] :
                   LET k == st.keys[st.models[m][i]]
                   IN  k.status = "active" /\ k.usage >= MAX_USAGE_BEFORE_ROTATE)
  IN  IF over = <<>> THEN st ELSE rotateKeys(st, Head(over), t)

checkUsageBasedRotation(st, t) == UsageLoop(st, ModelNames, t)

\* faulty variant of recordSuccess: the breaker is closed whatever its state
recordSuccess_closesAny(k, t) ==
  [k EXCEPT !.usage = k.usage + 1,
            !.lastUsed = t,
            !.consecutiveFails = 0,
            !.breakerState = "closed"]

\* faulty variant of recordSuccess: a second success on a key in the same
\* millisecond overwrites the count of the first
recordSuccess_sameTick(k, t) ==
  [k EXCEPT !.usage = IF k.lastUsed = t THEN k.usage ELSE k.usage + 1,
            !.lastUsed = t,
            !.consecutiveFails = 0,
            !.breakerState = IF k.breakerState = "half" THEN "closed"
                             ELSE k.breakerState]

recordSuccess(k, t) ==
  [k EXCEPT !.usage = k.usage + 1,
            !.lastUsed = t,
            !.consecutiveFails = 0,
            !.breakerState = IF k.breakerState = "half" THEN "closed"
                             ELSE k.breakerState]

\* faulty variant of recordFailure: a failed probe below the threshold leaves
\* the breaker half-open
recordFailure_thresholdOnly(k, t) ==
  LET fails == k.consecutiveFails + 1
  IN  IF fails >= BREAKER_FAIL_THRESHOLD
      THEN [k EXCEPT !.consecutiveFails = fails, !.lastUsed = t,
                     !.breakerState = "open", !.breakerOpenedAt = t]
      ELSE [k EXCEPT !.consecutiveFails = fails, !.lastUsed = t]

\* faulty variant of recordFailure: a failure on an open breaker leaves
\* breakerOpenedAt as it was
recordFailure_noRestamp(k, t) ==
  LET fails == k.consecutiveFails + 1
  IN  IF k.breakerState = "open"
      THEN [k EXCEPT !.consecutiveFails = fails, !.lastUsed = t]
      ELSE IF fails >= BREAKER_FAIL_THRESHOLD \/ k.breakerState = "half"
      THEN [k EXCEPT !.consecutiveFails = fails, !.lastUsed = t,
                     !.breakerState = "open", !.breakerOpenedAt = t]
      ELSE [k EXCEPT !.consecutiveFails = fails, !.lastUsed = t]

\* faulty variant of recordFailure: the breaker opens one failure late
recordFailure_late(k, t) ==
  LET fails == k.consecutiveFails + 1
  IN  IF fails > BREAKER_FAIL_THRESHOLD
      THEN [k EXCEPT !.consecutiveFails = fails, !.lastUsed = t,
                     !.breakerState = "open", !.breakerOpenedAt = t]
      ELSE IF k.breakerState = "half"
      THEN [k EXCEPT !.consecutiveFails = fails, !.lastUsed = t,
                     !.breakerState = "open", !.breakerOpenedAt = t]
      ELSE [k EXCEPT !.consecutiveFails = fails, !.lastUsed = t]

recordFailure(k, t) ==
  LET fails == k.consecutiveFails + 1
  IN  IF fails >= BREAKER_FAIL_THRESHOLD
      THEN [k EXCEPT !.consecutiveFails = fails, !.lastUsed = t,
                     !.breakerState = "open", !.breakerOpenedAt = t]
      ELSE IF k.breakerState = "half"
      THEN [k EXCEPT !.consecutiveFails = fails, !.lastUsed = t,
                     !.breakerState = "open", !.breakerOpenedAt = t]
      ELSE [k EXCEPT !.consecutiveFails = fails, !.lastUsed = t]

\* the callback of the rotation timer set by startKeyManager
RECURSIVE RotateAll(_, _, _)
RotateAll(st, names, t) ==
  IF names = <<>> THEN st
  ELSE RotateAll(rotateKeys(st, Head(names), t), Tail(names), t)

rotationSweep(st, t) ==
  checkUsageBasedRotation(cleanupKeys(RotateAll(st, ModelNames, t), t), t)

\* --------------------------------------------------------------- router.ts
\* the loop `for (model of order) { key = pickKey(model); if (key) return }`
\* with the side effects of the pickKey calls; key = NULL when it falls through
RECURSIVE Walk(_, _, _)
Walk(st, order, t) ==
  IF order = <<>> THEN [model |-> "none", key |-> NULL, st |-> st]
  ELSE
    LET m == Head(order)
        key == pickKey(st.keys, st.models[m], t)
        st1 == [st EXCEPT !.keys = getUsableKeysEffect(st.keys, st.models[m], t)]
    IN  IF key # NULL THEN [model |-> m, key |-> key, st |-> st1]
        ELSE Walk(st1, Tail(order), t)

\* faulty variant of routeByCost: the preference of medium for every class
routeByCost_oneOrder(st, complexity, t) ==
  Walk(st, COST_PREFERENCE("medium"), t)

\* faulty variant of routeByCost: only the first model of the preference
routeByCost_noEscalation(st, complexity, t) ==
  Walk(st, <<Head(COST_PREFERENCE(complexity))>>, t)

routeByCost(st, complexity, t) == Walk(st, COST_PREFERENCE(complexity), t)

\* faulty variant of routeByLatency: the models in the order of the registry
routeByLatency_unsorted(st, t) == Walk(st, ModelNames, t)

routeByLatency(st, t) ==
  Walk(st, StableSort(ModelNames, [m \in Tiers |-> avgLatency(m)]), t)

\* max(requests, 1)
Denominator(mets, m) ==
  IF mets[name(m)].requests > 1 THEN mets[name(m)].requests ELSE 1

usableCount(st, m) ==
  Len(SelectSeq(st.models[m],
        LAMBDA id : st.keys[id].status # "revoked"
                    /\ st.keys[id].breakerState # "open"))

\* usableCount * (1 - errors / max(requests, 1)), as a fraction: the score
\* times the product of the three denominators, which keeps the order of the
\* scores
ScoreTimesDenominators(st, mets, m) ==
  LET others == Tiers \ {m}
      a == CHOOSE x \in others : TRUE
      b == CHOOSE x \in others : x # a
  IN  usableCount(st, m) * (Denominator(mets, m) - mets[name(m)].errors)
        * Denominator(mets, a) * Denominator(mets, b)

\* faulty variant of routeByFallback: the score is the count of usable keys
routeByFallback_noErrorRate(st, mets, t) ==
  Walk(st, StableSort(ModelNames, [m \in Tiers |-> 0 - usableCount(st, m)]), t)

\* scored.sort((a, b) => b.score - a.score)
routeByFallback(st, mets, t) ==
  Walk(st,
       StableSort(ModelNames,
                  [m \in Tiers |-> 0 - ScoreTimesDenominators(st, mets, m)]),
       t)

route(st, mets, complexity, policy, t) ==
  CASE policy = "cost" -> routeByCost(st, complexity, t)
    [] policy = "latency" -> routeByLatency(st, t)
    [] policy = "fallback" -> routeByFallback(st, mets, t)
    [] OTHER -> routeByCost(st, complexity, t)

\* the message of the Error route throws when no model yields a key
routeError(policy) ==
  CASE policy = "latency" -> "No available model with usable keys (latency policy)"
    [] policy = "fallback" -> "All models degraded - no usable keys (fallback policy)"
    [] OTHER -> "No available model with usable keys (cost policy)"

\* -------------------------------------------------------------- metrics.ts
\* logRequest: the per-model counters (an absent entry counts as zeros)
logRequestMetrics(mets, entry) ==
  [mets EXCEPT ![entry.model].requests = @ + 1,
               ![entry.model].errors = IF entry.ok THEN @ ELSE @ + 1]

\* --------------------------------------------------------- Orchestrator.ts
NoResult == [ok |-> FALSE, model |-> "", keyId |-> NULL, complexity |-> "",
             response |-> ""]

IdleReq == [pc |-> "idle", policy |-> "", complexity |-> "", attempt |-> 0,
            model |-> "none", key |-> NULL, start |-> 0, lastError |-> "",
            result |-> NoResult]

\* faulty variant of Exhausted: the message of lastError is not reported
Exhausted_unknown(r) ==
  [IdleReq EXCEPT !.pc = "done",
            !.result = [ok |-> FALSE, model |-> "none", keyId |-> NULL,
                        complexity |-> r.complexity,
                        response |-> "Error: Unknown failure"]]

\* the return after the loop: "All retries exhausted" (the locals of a call
\* that has returned are gone: only its result is kept; lastError = "" stands
\* for null)
Exhausted(r) ==
  [IdleReq EXCEPT !.pc = "done",
            !.result = [ok |-> FALSE, model |-> "none", keyId |-> NULL,
                        complexity |-> r.complexity,
                        response |-> "Error: " \o (IF r.lastError = ""
                                                    THEN "Unknown failure"
                                                    ELSE r.lastError)]]

\* faulty variant of Attempt: when route throws, the request is dispatched all
\* the same, with the first key of the first model
Attempt_dispatchesAnyway(st, mets, r, t) ==
  LET effectivePolicy == IF r.attempt = 0 THEN r.policy ELSE "fallback"
      rt == route(st, mets, r.complexity, effectivePolicy, t)
  IN  IF rt.key = NULL
      THEN [st |-> rt.st,
            req |-> [r EXCEPT !.pc = "dispatch", !.model = Head(ModelNames),
                              !.key = Head(st.models[Head(ModelNames)]),
                              !.start = t]]
      ELSE [st |-> rt.st,
            req |-> [r EXCEPT !.pc = "dispatch", !.model = rt.model,
                              !.key = rt.key, !.start = t]]

\* faulty variant of Attempt: every attempt is routed with the caller's policy
Attempt_keepsPolicy(st, mets, r, t) ==
  LET rt == route(st, mets, r.complexity, r.policy, t)
  IN  IF rt.key = NULL
      THEN [st |-> rt.st, req |-> Exhausted(r)]
      ELSE [st |-> rt.st,
            req |-> [r EXCEPT !.pc = "dispatch", !.model = rt.model,
                              !.key = rt.key, !.start = t]]

\* the head of the loop body, up to `await callModel(...)`: the request either
\* suspends in its dispatch or, when route throws, breaks out of the loop
Attempt(st, mets, r, t) ==
  LET effectivePolicy == IF r.attempt = 0 THEN r.policy ELSE "fallback"
      rt == route(st, mets, r.complexity, effectivePolicy, t)
  IN  IF rt.key = NULL
      THEN [st |-> rt.st, req |-> Exhausted(r)]
      ELSE [st |-> rt.st,
            req |-> [r EXCEPT !.pc = "dispatch", !.model = rt.model,
                              !.key = rt.key, !.start = t]]

\* faulty variant of Continue: no `if (ok) return`, the loop goes on after a
\* successful dispatch
Continue_noReturn(st, mets, r, i, outcome, t) ==
  LET ok == outcome = "ok"
      st1 == [st EXCEPT !.keys[r.key] = IF ok THEN recordSuccess(@, t)
                                              ELSE recordFailure(@, t)]
      errorMsg == IF ok THEN "" ELSE "error from " \o name(r.model)
      logEntry == [userId |-> i, complexity |-> r.complexity,
                   model |-> name(r.model), keyId |-> r.key, ok |-> ok,
                   errorMsg |-> errorMsg]
      mets1 == logRequestMetrics(mets, logEntry)
      r1 == [r EXCEPT !.lastError = IF ok THEN @ ELSE errorMsg,
                      !.attempt = @ + 1]
      nxt == IF r1.attempt <= MAX_RETRIES
             THEN Attempt(st1, mets1, r1, t)
             ELSE [st |-> st1, req |-> Exhausted(r1)]
  IN  [st |-> nxt.st, req |-> nxt.req, metrics |-> mets1, logEntry |-> logEntry]

\* faulty variant of Continue: one attempt more than MAX_RETRIES allows
Continue_extraAttempt(st, mets, r, i, outcome, t) ==
  LET ok == outcome = "ok"
      st1 == [st EXCEPT !.keys[r.key] = IF ok THEN recordSuccess(@, t)
                                              ELSE recordFailure(@, t)]
      errorMsg == IF ok THEN "" ELSE "error from " \o name(r.model)
      logEntry == [userId |-> i, complexity |-> r.complexity,
                   model |-> name(r.model), keyId |-> r.key, ok |-> ok,
                   errorMsg |-> errorMsg]
      mets1 == logRequestMetrics(mets, logEntry)
      r1 == [r EXCEPT !.lastError = IF ok THEN @ ELSE errorMsg,
                      !.attempt = IF ok THEN @ ELSE @ + 1]
      nxt == IF ok
             THEN [st |-> st1,
                   req |-> [IdleReq EXCEPT !.pc = "done",
                              !.result = [ok |-> TRUE, model |-> name(r.model),
                                          keyId |-> r.key,
                                          complexity |-> r.complexity,
                                          response |-> "text"]]]
             ELSE IF r1.attempt <= MAX_RETRIES + 1
             THEN Attempt(st1, mets1, r1, t)
             ELSE [st |-> st1, req |-> Exhausted(r1)]
  IN  [st |-> nxt.st, req |-> nxt.req, metrics |-> mets1, logEntry |-> logEntry]

\* the rest of the loop body once callModel has returned or thrown, and on
\* into the next iteration up to its await
Continue(st, mets, r, i, outcome, t) ==
  LET ok == outcome = "ok"
      st1 == [st EXCEPT !.keys[r.key] = IF ok THEN recordSuccess(@, t)
                                              ELSE recordFailure(@, t)]
      errorMsg == IF ok THEN "" ELSE "error from " \o name(r.model)
      logEntry == [userId |-> i, complexity |-> r.complexity,
                   model |-> name(r.model), keyId |-> r.key, ok |-> ok,
                   errorMsg |-> errorMsg]
      mets1 == logRequestMetrics(mets, logEntry)
      r1 == [r EXCEPT !.lastError = IF ok THEN @ ELSE errorMsg,
                      !.attempt = IF ok THEN @ ELSE @ + 1]
      nxt == IF ok
             THEN [st |-> st1,
                   req |-> [IdleReq EXCEPT !.pc = "done",
                              !.result = [ok |-> TRUE, model |-> name(r.model),
                                          keyId |-> r.key,
                                          complexity |-> r.complexity,
                                          response |-> "text"]]]
             ELSE IF r1.attempt <= MAX_RETRIES
             THEN Attempt(st1, mets1, r1, t)
             ELSE [st |-> st1, req |-> Exhausted(r1)]
  IN  [st |-> nxt.st, req |-> nxt.req, metrics |-> mets1, logEntry |-> logEntry]

\* ------------------------------------------------------------------- state
Store == [keys |-> keys, models |-> models, rotationLog |-> rotationLog]

SetStore(st) ==
  /\ keys' = st.keys
  /\ models' = st.models
  /\ rotationLog' = st.rotationLog

Op(n, a, r) == [name |-> n, arg |-> a, ret |-> r]

\* n dispatch failures recorded on a fresh key at boot time
RECURSIVE Fail(_, _)
Fail(k, n) == IF n = 0 THEN k ELSE Fail(recordFailure(k, Epoch), n - 1)

\* n dispatch successes recorded on a key at boot time: what n calls of
\* recordSuccess leave, the first of them closing a half-open breaker
Succeed(k, n) ==
  IF n = 0 THEN k
  ELSE [recordSuccess(k, Epoch) EXCEPT !.usage = k.usage + n]

\* the failures every key has had when the model starts to watch
WarmLevels == {0, 2, 3}

\* the successes every key of a busy model has had: one short of a
\* usage-based rotation
BusyUsage == MAX_USAGE_BEFORE_ROTATE - 1

\* the model a key of initRegistry belongs to
BootModel(id) ==
  CASE id \in {1, 2} -> "flash"
    [] id \in {3, 4} -> "pro"
    [] id \in {5, 6} -> "mock"

\* the log entries of s successful and then n failed dispatches on key id
WarmLogs(id, s, n) ==
  [j \in 1..(s + n) |->
     [userId |-> 1, complexity |-> "simple", model |-> name(BootModel(id)),
      keyId |-> id, ok |-> j <= s,
      errorMsg |-> IF j <= s THEN ""
                   ELSE "error from " \o name(BootModel(id))]]

\* initRegistry (two keys per model) then startKeyManager, as main() runs them,
\* and a warm-up: on each key of model m, used[m] dispatches have succeeded
\* and then warm[m] have failed, after which POST /stats/reset has cleared the
\* metrics and the logs, or has not
BootWith(warm, used, reset) ==
  /\ now = Epoch
  /\ keys = [id \in 1..6 |->
               Fail(Succeed(makeKey(Epoch), used[BootModel(id)]),
                    warm[BootModel(id)])]
  /\ models = [m \in Tiers |->
                 CASE m = "flash" -> <<1, 2>>
                   [] m = "pro" -> <<3, 4>>
                   [] m = "mock" -> <<5, 6>>]
  /\ rotationLog = <<>>
  /\ metrics = [n \in {name(m) : m \in Tiers} |->
                  LET m == CHOOSE x \in Tiers : name(x) = n
                  IN  IF reset THEN [requests |-> 0, errors |-> 0]
                      ELSE [requests |-> 2 * (used[m] + warm[m]),
                            errors |-> 2 * warm[m]]]
  /\ logs = IF reset THEN <<>>
            ELSE LET l(id) == WarmLogs(id, used[BootModel(id)],
                                       warm[BootModel(id)])
                 IN  l(1) \o l(2) \o l(3) \o l(4) \o l(5) \o l(6)
  /\ reqs = [i \in 1..2 |-> IdleReq]
  /\ rotationTimer = TRUE
  /\ cleanupTimers = 1
  /\ calls = 0
  /\ op = Op("init", <<>>, <<>>)

\* the same failures on every model, no successes, and the metrics reset
Boot(levels) ==
  \E n \in levels :
    BootWith([m \in Tiers |-> n], [m \in Tiers |-> 0], TRUE)

Init == Boot(WarmLevels)

\* ----------------------------------------------------------------- actions
Others == <<metrics, logs, reqs, rotationTimer, cleanupTimers>>

Tick(maxTicks) ==
  /\ now + TickMs <= Epoch + maxTicks * TickMs
  /\ now' = now + TickMs
  /\ op' = Op("tick", <<>>, <<>>)
  /\ UNCHANGED <<keys, models, rotationLog, calls, Others>>

\* POST /query: handleQuery up to its first await
HandleQuery(i, policyArg, complexity) ==
  /\ reqs[i].pc = "idle"
  /\ i > 1 => reqs[i - 1].pc # "idle"
  /\ LET r == [IdleReq EXCEPT
                 !.policy = IF policyArg = "none" THEN "cost" ELSE policyArg,
                 !.complexity = complexity]
         a == Attempt(Store, metrics, r, now)
     IN  /\ SetStore(a.st)
         /\ reqs' = [reqs EXCEPT ![i] = a.req]
         /\ op' = Op("handleQuery", <<i, policyArg, complexity>>, a.req.pc)
  /\ UNCHANGED <<now, metrics, logs, rotationTimer, cleanupTimers, calls>>

\* faulty variant of Resume: only the successful dispatches are logged
Resume_logsSuccessOnly(i, outcome) ==
  /\ reqs[i].pc = "dispatch"
  /\ outcome = "fail" => Len(SelectSeq(logs, LAMBDA e : ~e.ok)) < MaxFailures
  /\ LET c == Continue(Store, metrics, reqs[i], i, outcome, now)
     IN  /\ SetStore(c.st)
         /\ reqs' = [reqs EXCEPT ![i] = c.req]
         /\ metrics' = c.metrics
         /\ logs' = IF outcome = "ok" THEN Append(logs, c.logEntry) ELSE logs
         /\ op' = Op("resume", <<i, outcome>>, c.req.pc)
  /\ UNCHANGED <<now, rotationTimer, cleanupTimers, calls>>

\* callModel settles: handleQuery resumes and runs to its next await or return
Resume(i, outcome) ==
  /\ reqs[i].pc = "dispatch"
  /\ outcome = "fail" => Len(SelectSeq(logs, LAMBDA e : ~e.ok)) < MaxFailures
  /\ LET c == Continue(Store, metrics, reqs[i], i, outcome, now)
     IN  /\ SetStore(c.st)
         /\ reqs' = [reqs EXCEPT ![i] = c.req]
         /\ metrics' = c.metrics
         /\ logs' = Append(logs, c.logEntry)
         /\ op' = Op("resume", <<i, outcome>>, c.req.pc)
  /\ UNCHANGED <<now, rotationTimer, cleanupTimers, calls>>

\* POST /rotate/:model
RotateEndpoint(maxKeys, modelName) ==
  /\ Cardinality(DOMAIN keys) < maxKeys
  /\ IF modelName \in Tiers
     THEN SetStore(cleanupKeys(rotateKeys(Store, modelName, now), now))
     ELSE UNCHANGED <<keys, models, rotationLog>>
  /\ op' = Op("POST /rotate", modelName, <<>>)
  /\ UNCHANGED <<now, calls, Others>>

\* the rotation timer of startKeyManager fires
RotationTimer(maxKeys) ==
  /\ rotationTimer
  /\ LET st == rotationSweep(Store, now)
     IN  /\ Cardinality(DOMAIN st.keys) <= maxKeys
         /\ SetStore(st)
  /\ op' = Op("rotationTimer", <<>>, <<>>)
  /\ UNCHANGED <<now, calls, Others>>

\* a cleanup timer of startKeyManager fires
CleanupTimer ==
  /\ cleanupTimers > 0
  /\ SetStore(cleanupKeys(Store, now))
  /\ op' = Op("cleanupKeys", <<>>, <<>>)
  /\ UNCHANGED <<now, calls, Others>>

\* direct calls of the exported functions of registery.ts, router.ts and
\* keymngr.ts
CallGetUsableKeys(maxCalls, m) ==
  /\ calls < maxCalls
  /\ calls' = calls + 1
  /\ keys' = getUsableKeysEffect(keys, models[m], now)
  /\ op' = Op("getUsableKeys", m, getUsableKeys(keys, models[m], now))
  /\ UNCHANGED <<now, models, rotationLog, Others>>

CallPickKey(maxCalls, m) ==
  /\ calls < maxCalls
  /\ calls' = calls + 1
  /\ keys' = getUsableKeysEffect(keys, models[m], now)
  /\ op' = Op("pickKey", m, pickKey(keys, models[m], now))
  /\ UNCHANGED <<now, models, rotationLog, Others>>

CallRoute(maxCalls, complexity, policy) ==
  /\ calls < maxCalls
  /\ calls' = calls + 1
  /\ LET rt == route(Store, metrics, complexity, policy, now)
     IN  /\ SetStore(rt.st)
         /\ op' = Op("route", <<complexity, policy>>,
                     [model |-> rt.model, key |-> rt.key])
  /\ UNCHANGED <<now, Others>>

CallRecordSuccess(maxCalls, id) ==
  /\ calls < maxCalls
  /\ calls' = calls + 1
  /\ keys' = [keys EXCEPT ![id] = recordSuccess(@, now)]
  /\ op' = Op("recordSuccess", id, <<>>)
  /\ UNCHANGED <<now, models, rotationLog, Others>>

CallRecordFailure(maxCalls, id) ==
  /\ calls < maxCalls
  /\ calls' = calls + 1
  /\ keys' = [keys EXCEPT ![id] = recordFailure(@, now)]
  /\ op' = Op("recordFailure", id, <<>>)
  /\ UNCHANGED <<now, models, rotationLog, Others>>

\* rotateKeys called directly: `if (!model) return` lets an inherited value
\* through, and `model.keys.filter` then throws a TypeError
CallRotateKeys(maxKeys, modelName) ==
  /\ Cardinality(DOMAIN keys) < maxKeys
  /\ SetStore(rotateKeys(Store, modelName, now))
  /\ op' = Op("rotateKeys", modelName,
              [threw |-> Lookup(modelName) = "inherited"])
  /\ UNCHANGED <<now, calls, Others>>

\* checkUsageBasedRotation called directly
CallCheckUsageBasedRotation(maxKeys) ==
  /\ Cardinality(DOMAIN keys) + Len(ModelNames) <= maxKeys
  /\ SetStore(checkUsageBasedRotation(Store, now))
  /\ op' = Op("checkUsageBasedRotation", <<>>, <<>>)
  /\ UNCHANGED <<now, calls, Others>>

\* cleanupKeys called directly
CallCleanupKeys ==
  /\ SetStore(cleanupKeys(Store, now))
  /\ op' = Op("cleanupKeys", <<>>, <<>>)
  /\ UNCHANGED <<now, calls, Others>>

\* addKey called directly: it throws `Unknown model` when models[modelName]
\* is undefined, and a TypeError at `model.keys.push` when it is inherited
CallAddKey(maxKeys, maxCalls, modelName) ==
  /\ Cardinality(DOMAIN keys) < maxKeys
  /\ calls < maxCalls
  /\ calls' = calls + 1
  /\ IF Lookup(modelName) = "model"
     THEN /\ SetStore(addKey(Store, modelName, now))
          /\ op' = Op("addKey", modelName,
                      [threw |-> FALSE, error |-> "", key |-> NextId(Store)])
     ELSE /\ UNCHANGED <<keys, models, rotationLog>>
          /\ op' = Op("addKey", modelName,
                      [threw |-> TRUE,
                       error |-> IF Lookup(modelName) = "undefined"
                                 THEN "Unknown model: " \o modelName
                                 ELSE "TypeError",
                       key |-> NULL])
  /\ UNCHANGED <<now, Others>>

\* initRegistry called, as main() does first
CallInitRegistry(maxKeys) ==
  /\ Cardinality(DOMAIN keys) + 2 * Len(ModelNames) <= maxKeys
  /\ SetStore(initRegistry(Store, now))
  /\ op' = Op("initRegistry", <<>>, <<>>)
  /\ UNCHANGED <<now, calls, Others>>

\* startKeyManager: nothing when rotationTimer is set; otherwise the sweep is
\* scheduled and its handle stored in rotationTimer, and cleanupKeys is
\* scheduled every 30 s, its handle dropped
CallStartKeyManager(maxTimers) ==
  /\ rotationTimer \/ cleanupTimers < maxTimers
  /\ IF rotationTimer
     THEN UNCHANGED <<rotationTimer, cleanupTimers>>
     ELSE /\ rotationTimer' = TRUE
          /\ cleanupTimers' = cleanupTimers + 1
  /\ op' = Op("startKeyManager", <<>>, <<>>)
  /\ UNCHANGED <<now, keys, models, rotationLog, metrics, logs, reqs, calls>>

\* stopKeyManager: clearInterval(rotationTimer) and rotationTimer = null
CallStopKeyManager ==
  /\ rotationTimer' = FALSE
  /\ op' = Op("stopKeyManager", <<>>, <<>>)
  /\ UNCHANGED <<now, keys, models, rotationLog, metrics, logs, reqs,
                 cleanupTimers, calls>>

\* ---------------------------------------------------------- specifications
\* the server: a request, the manual rotation endpoint, the cleanup timer and
\* direct usability checks
Next ==
  \/ Tick(MaxTicks)
  \/ \E p \in Policies \cup {"none"}, c \in Complexities : HandleQuery(1, p, c)
  \/ \E o \in Outcomes : Resume(1, o)
  \/ \E m \in Tiers \cup {"bogus"} : RotateEndpoint(MaxKeys, m)
  \/ CleanupTimer
  \/ \E m \in Tiers : CallGetUsableKeys(MaxCalls, m)
  \/ \E m \in Tiers : CallPickKey(MaxCalls, m)

Spec == Init /\ [][Next]_vars

\* the key lifecycle over a horizon longer than the grace period
InitLife == Boot({0, 3})

NextLife ==
  \/ Tick(LifeTicks)
  \/ \E m \in Tiers : RotateEndpoint(LifeKeys, m)
  \/ \E m \in Tiers \cup {"bogus"} : CallRotateKeys(LifeKeys, m)
  \/ RotationTimer(LifeKeys)
  \/ CleanupTimer
  \/ \E m \in Tiers : CallGetUsableKeys(LifeCalls, m)
  \/ \E m \in Tiers : CallPickKey(LifeCalls, m)

SpecLife == InitLife /\ [][NextLife]_vars

\* every function that writes to a key, called in any order on the keys of a
\* model that may be one success short of a usage-based rotation
InitStatus ==
  \E u \in {0, BusyUsage} :
    BootWith([m \in Tiers |-> 0],
             [m \in Tiers |-> IF m = "flash" THEN u ELSE 0], TRUE)

NextStatus ==
  \/ Tick(LifeTicks)
  \/ CallRotateKeys(StatusKeys, "flash")
  \/ RotationTimer(SweepKeys)
  \/ CleanupTimer
  \/ \E m \in Tiers : CallGetUsableKeys(StatusCalls, m)
  \/ \E m \in Tiers : CallPickKey(StatusCalls, m)
  \/ \E id \in Range(models["flash"]) : CallRecordSuccess(StatusCalls, id)
  \/ \E id \in Range(models["flash"]) : CallRecordFailure(StatusCalls, id)

SpecStatus == InitStatus /\ [][NextStatus]_vars

\* one request in flight while the keys of one model are rotated and swept,
\* over a horizon longer than the grace period
InitFlight == Boot({0})

NextFlight ==
  \/ Tick(FlightTicks)
  \/ \E p \in Policies, c \in Complexities : HandleQuery(1, p, c)
  \/ \E o \in Outcomes : Resume(1, o)
  \/ RotateEndpoint(FlightKeys, "flash")
  \/ CleanupTimer

SpecFlight == InitFlight /\ [][NextFlight]_vars

\* the exported functions of the store and of the breaker called in any order
NextApi ==
  \/ Tick(MaxTicks)
  \/ \E m \in Tiers : CallGetUsableKeys(ApiCalls, m)
  \/ \E m \in Tiers : CallPickKey(ApiCalls, m)
  \/ \E id \in DOMAIN keys : CallRecordSuccess(ApiCalls, id)
  \/ \E id \in DOMAIN keys : CallRecordFailure(ApiCalls, id)

SpecApi == Init /\ [][NextApi]_vars

\* route called on stores whose models have lost some or all of their keys,
\* to the breaker or to revocation, with or without the failures in the metrics
InitRoute ==
  \E warm \in [Tiers -> {0, 3}], reset \in BOOLEAN :
    BootWith(warm, [m \in Tiers |-> 0], reset)

NextRoute ==
  \/ Tick(LifeTicks)
  \/ \E c \in Complexities, p \in Policies : CallRoute(RouteCalls, c, p)
  \/ \E m \in Tiers : RotateEndpoint(MaxKeys, m)
  \/ CleanupTimer

SpecRoute == InitRoute /\ [][NextRoute]_vars

\* two overlapping requests on stores whose models have lost some or all of
\* their keys to the breaker; every dispatch settles in the end
InitQuery ==
  \E warm \in [Tiers -> {0, 2, 3}] :
    BootWith(warm, [m \in Tiers |-> 0], TRUE)

NextQuery ==
  \/ Tick(QueryTicks)
  \/ \E p \in Policies \cup {"none"}, c \in Complexities : HandleQuery(1, p, c)
  \/ \E i \in (2..QueryRequests) \cap DOMAIN reqs :
       HandleQuery(i, "latency", "simple")
  \/ \E i \in (1..QueryRequests) \cap DOMAIN reqs, o \in Outcomes : Resume(i, o)

SpecQuery ==
  /\ InitQuery
  /\ [][NextQuery]_vars
  /\ WF_vars(\E o \in Outcomes : Resume(1, o))
  /\ WF_vars(\E o \in Outcomes : Resume(2, o))

\* route called on stores whose models differ in their error rates and in
\* the keys they have left
InitFallback ==
  \E warm \in [Tiers -> {0, 1, 3}], used \in [Tiers -> {0, 1}] :
    BootWith(warm, used, FALSE)

NextFallback ==
  \/ Tick(LifeTicks)
  \/ \E p \in {"cost", "fallback"} : CallRoute(FallbackCalls, "medium", p)
  \/ RotateEndpoint(MaxKeys, "flash")
  \/ CleanupTimer

SpecFallback == InitFallback /\ [][NextFallback]_vars

\* two overlapping requests on stores whose open breakers come to the end of
\* their cooldown
InitProbe ==
  \E warm \in [Tiers -> {0, 3}] :
    BootWith(warm, [m \in Tiers |-> 0], TRUE)

NextProbe ==
  \/ Tick(ProbeTicks)
  \/ \E p \in {"cost", "fallback"} : HandleQuery(1, p, "simple")
  \/ \E i \in (2..QueryRequests) \cap DOMAIN reqs :
       HandleQuery(i, "latency", "simple")
  \/ \E i \in (1..QueryRequests) \cap DOMAIN reqs, o \in Outcomes : Resume(i, o)

SpecProbe == InitProbe /\ [][NextProbe]_vars

\* the modules as loaded, before main() has run: `keys: []` in every model,
\* no timer set; then the exported functions of the store and of the key
\* manager called in any order, rotations on one model
InitStore ==
  /\ now = Epoch
  /\ keys = <<>>
  /\ models = [m \in Tiers |-> <<>>]
  /\ rotationLog = <<>>
  /\ metrics = [n \in {name(m) : m \in Tiers} |-> [requests |-> 0, errors |-> 0]]
  /\ logs = <<>>
  /\ reqs = [i \in 1..2 |-> IdleReq]
  /\ rotationTimer = FALSE
  /\ cleanupTimers = 0
  /\ calls = 0
  /\ op = Op("init", <<>>, <<>>)

NextStore ==
  \/ Tick(MaxTicks)
  \/ CallInitRegistry(StoreKeys)
  \/ \E m \in {"flash", "pro", "bogus", "constructor"} :
       CallRotateKeys(StoreKeys, m)
  \/ \E m \in {"flash", "bogus", "constructor"} :
       CallAddKey(StoreKeys, StoreCalls, m)
  \/ CallCleanupKeys

SpecStore == InitStore /\ [][NextStore]_vars

\* one model rotated often enough, and over a horizon long enough, for more
\* revoked keys than cleanupKeys keeps
NextPrune ==
  \/ Tick(LifeTicks)
  \/ CallRotateKeys(PruneKeys, "flash")
  \/ CallCleanupKeys

SpecPrune == InitFlight /\ [][NextPrune]_vars

\* models whose keys are one success short of the usage cap, or fresh
InitUsage ==
  \E u \in [{"flash", "pro"} -> {0, BusyUsage}] :
    BootWith([m \in Tiers |-> 0],
             [m \in Tiers |-> IF m = "mock" THEN 0 ELSE u[m]], TRUE)

NextUsage ==
  \/ Tick(MaxTicks)
  \/ \E id \in DOMAIN keys : CallRecordSuccess(UsageCalls, id)
  \/ CallCheckUsageBasedRotation(UsageKeys)

SpecUsage == InitUsage /\ [][NextUsage]_vars

\* every key opened at boot time by its third failure; then the outcomes of
\* dispatches that were in flight, usability checks and the timers, in any
\* order
InitCooldown == Boot({BREAKER_FAIL_THRESHOLD})

NextCooldown ==
  \/ Tick(MaxTicks)
  \/ \E m \in Tiers : CallGetUsableKeys(CoolCalls, m)
  \/ \E id \in DOMAIN keys : CallRecordSuccess(CoolCalls, id)
  \/ \E id \in DOMAIN keys : CallRecordFailure(CoolCalls, id)
  \/ RotationTimer(CoolKeys)
  \/ CleanupTimer

SpecCooldown == InitCooldown /\ [][NextCooldown]_vars

\* the lifecycle functions and the outcome recordings called in any order;
\* an outcome is recorded on the key object the request holds, whether or not
\* a model still holds it
NextFrame ==
  \/ Tick(LifeTicks)
  \/ CallRotateKeys(FrameKeys, "flash")
  \/ CallCleanupKeys
  \/ CallCheckUsageBasedRotation(FrameKeys)
  \/ \E id \in 1..FrameIds : CallRecordSuccess(FrameCalls, id)
  \/ \E id \in 1..FrameIds : CallRecordFailure(FrameCalls, id)

SpecFrame == InitStatus /\ [][NextFrame]_vars

\* requests served one after another on closed keys that start with equal
\* usage: each selects a key with pickKey, its dispatch succeeds, and
\* recordSuccess is called on the key before the next request selects
NextRound ==
  \/ op.name # "pickKey" /\ Tick(MaxTicks)
  \/ \E m \in Tiers : op.name # "pickKey" /\ CallPickKey(RoundCalls, m)
  \/ /\ op.name = "pickKey"
     /\ op.ret # NULL
     /\ CallRecordSuccess(RoundCalls, op.ret)

SpecRound == InitFlight /\ [][NextRound]_vars

\* the time of the last rotation sweep, or of startKeyManager when there has
\* been none: every sweep logs a rotation, and in SpecSweep nothing else does
lastSweep ==
  LET hits == {i \in DOMAIN rotationLog : rotationLog[i].newKeyId # NULL}
  IN  IF hits = {} THEN Epoch
      ELSE rotationLog[CHOOSE i \in hits : \A j \in hits : j <= i].ts

\* the interval of setInterval(sweep, ROTATION_INTERVAL_MS) has elapsed
SweepDue == now - lastSweep >= ROTATION_INTERVAL_MS

\* the scheduled sweeps on a running clock: the rotation timer fires when its
\* interval has elapsed, before the clock moves on; the cleanup timer fires
\* or is late; successes are recorded on the keys of a model one success
\* short of the usage cap
NextSweep ==
  \/ ~SweepDue /\ Tick(SweepTicks)
  \/ SweepDue /\ RotationTimer(LiveKeys)
  \/ CleanupTimer
  \/ \E id \in 1..FrameIds : CallRecordSuccess(LiveCalls, id)

\* the rotation timer can fire: its interval has elapsed and the keys that
\* the sweep would create are within the bound
SweepEnabled ==
  /\ SweepDue
  /\ rotationTimer
  /\ Cardinality(DOMAIN rotationSweep(Store, now).keys) <= LiveKeys

\* weak fairness of the rotation timer, WF_vars(SweepDue /\ RotationTimer),
\* written out with its enabling condition as the state predicate above
SweepFair ==
  \/ []<>(~SweepEnabled)
  \/ []<><<SweepDue /\ RotationTimer(LiveKeys)>>_vars

SpecSweep ==
  /\ InitStatus
  /\ [][NextSweep]_vars
  /\ WF_vars(~SweepDue /\ Tick(SweepTicks))
  /\ SweepFair

\* the modules as loaded; then initRegistry, startKeyManager and
\* stopKeyManager called in any order while the clock runs and the scheduled
\* timers fire
NextTimers ==
  \/ Tick(MaxTicks)
  \/ CallInitRegistry(TimerKeys)
  \/ CallStartKeyManager(TimerStarts)
  \/ CallStopKeyManager
  \/ RotationTimer(TimerKeys)
  \/ CleanupTimer

SpecTimers == InitStore /\ [][NextTimers]_vars

TypeOK ==
  /\ now \in Nat
  /\ DOMAIN keys = 1..Cardinality(DOMAIN keys)
  /\ \A m \in Tiers : Range(models[m]) \subseteq DOMAIN keys

\* ------------------------------------------------------------------ claims
\* what the specification calls a usable credential at time t
ClaimUsable(id, t) ==
  /\ keys[id].status # "revoked"
  /\ \/ keys[id].breakerState \in {"closed", "half"}
     \/ /\ keys[id].breakerState = "open"
        /\ t - keys[id].breakerOpenedAt > 30000

\* the deprecation time of a credential: the timestamp of the most recent
\* RotationEvent naming it as deprecated, else its creation time
ClaimDeprecationTime(id) ==
  LET hits == {i \in DOMAIN rotationLog : rotationLog[i].deprecatedKeyId = id}
      last == CHOOSE i \in hits : \A j \in hits : j <= i
  IN  IF hits = {} THEN keys[id].createdAt ELSE rotationLog[last].ts

\* the steps that run cleanupKeys
IsSweep(o) ==
  \/ o.name \in {"cleanupKeys", "rotationTimer"}
  \/ o.name = "POST /rotate" /\ o.arg \in Tiers

C2_ThreeFailuresOpen ==
  [][/\ op'.name = "recordFailure" /\ keys[op'.arg].breakerState = "closed"
        => /\ keys'[op'.arg].consecutiveFails = keys[op'.arg].consecutiveFails + 1
           /\ keys[op'.arg].consecutiveFails = 2
                => /\ keys'[op'.arg].breakerState = "open"
                   /\ keys'[op'.arg].breakerOpenedAt = now'
           /\ keys[op'.arg].consecutiveFails < 2
                => keys'[op'.arg].breakerState = "closed"
     /\ \A id \in DOMAIN keys :
          ~(op'.name \in {"recordFailure", "recordSuccess"} /\ op'.arg = id)
          => keys'[id].consecutiveFails = keys[id].consecutiveFails]_vars

\* three recordFailure calls on one fresh credential, at a time after boot, and
\* nothing else: it is open, stamped with the time of the third call
C2_Witness ==
  /\ op.name = "recordFailure"
  /\ calls = 3
  /\ now > Epoch
  /\ keys[op.arg].breakerState = "open"
  /\ keys[op.arg].consecutiveFails = 3
  /\ keys[op.arg].breakerOpenedAt = now
  /\ \A id \in DOMAIN keys \ {op.arg} : keys[id].consecutiveFails = 0

\* C3 as stated: a usability check never returns an open credential before
\* more than 30 s have passed since breakerOpenedAt, and once they have, the
\* check sets the credential to half-open and returns it
C3_Original ==
  [][op'.name \in {"getUsableKeys", "pickKey"}
     => \A id \in Range(models[op'.arg]) :
          keys[id].breakerState = "open"
          => IF now - keys[id].breakerOpenedAt > 30000
             THEN /\ keys'[id].breakerState = "half"
                  /\ op'.name = "getUsableKeys" => id \in Range(op'.ret)
             ELSE /\ keys'[id].breakerState = "open"
                  /\ op'.name = "getUsableKeys" => id \notin Range(op'.ret)
                  /\ op'.name = "pickKey" => op'.ret # id]_vars

\* C3 amended: the same for the credentials that are not revoked; a revoked
\* open credential is never returned and stays open
C3_OpenUntilCooldown ==
  [][op'.name \in {"getUsableKeys", "pickKey"}
     => \A id \in Range(models[op'.arg]) :
          keys[id].breakerState = "open"
          => IF /\ now - keys[id].breakerOpenedAt > 30000
                /\ keys[id].status # "revoked"
             THEN /\ keys'[id].breakerState = "half"
                  /\ op'.name = "getUsableKeys" => id \in Range(op'.ret)
             ELSE /\ keys'[id].breakerState = "open"
                  /\ op'.name = "getUsableKeys" => id \notin Range(op'.ret)
                  /\ op'.name = "pickKey" => op'.ret # id]_vars

\* a usability check has just moved an open credential to half-open and
\* returned it
C3_Witness ==
  /\ op.name = "getUsableKeys"
  /\ \E id \in Range(op.ret) :
       /\ keys[id].breakerState = "half"
       /\ now - keys[id].breakerOpenedAt > 30000

\* C4: a credential's status only ever changes active->deprecated or
\* deprecated->revoked, one step at a time
C4_StatusForward ==
  [][\A id \in DOMAIN keys :
       keys'[id].status # keys[id].status
       => <<keys[id].status, keys'[id].status>>
            \in {<<"active", "deprecated">>, <<"deprecated", "revoked">>}]_vars

\* a credential that a usage-based rotation deprecated has gone all the way
\* to revoked
C4_Witness ==
  \E i \in DOMAIN rotationLog :
    /\ i > 1
    /\ rotationLog[i].deprecatedKeyId # NULL
    /\ rotationLog[i - 1].revokedKeyId = NULL
    /\ rotationLog[i - 1].modelName = "mock"
    /\ rotationLog[i].modelName = "flash"
    /\ keys[rotationLog[i].deprecatedKeyId].status = "revoked"
    /\ \E id \in Range(models["flash"]) : keys[id].usage >= 100

\* C5 as stated: a sweep at time t revokes a deprecated credential with
\* deprecation time T if and only if t >= T + gracePeriod
C5_Original ==
  [][IsSweep(op')
     => \A id \in DOMAIN keys :
          keys[id].status = "deprecated"
          => (keys'[id].status = "revoked"
              <=> now >= ClaimDeprecationTime(id) + 120000)]_vars

\* C5 amended: if and only if t > T + gracePeriod
C5_RevokedAfterGrace ==
  [][IsSweep(op')
     => \A id \in DOMAIN keys :
          keys[id].status = "deprecated"
          => (keys'[id].status = "revoked"
              <=> now > ClaimDeprecationTime(id) + 120000)]_vars

\* a sweep has just revoked a credential
C5_Witness ==
  /\ op.name = "cleanupKeys"
  /\ rotationLog # <<>>
  /\ rotationLog[Len(rotationLog)].revokedKeyId # NULL
  /\ rotationLog[Len(rotationLog)].ts = now
  /\ keys[rotationLog[Len(rotationLog)].revokedKeyId].status = "revoked"

\* the place of a credential in a key list
ClaimPos(ids, id) == CHOOSE i \in DOMAIN ids : ids[i] = id

\* C6: a request whose dispatch lasts less than the grace period never has its
\* credential revoked between its selection and the recording of the outcome
\* (stated for the selections made while no sweep could yet have revoked the
\* credential, which are the ones every timing of the sweeps allows)
C6_NoMidFlightRevocation ==
  [][\A i \in DOMAIN reqs :
       /\ op'.name = "resume"
       /\ op'.arg[1] = i
       /\ now - reqs[i].start < 120000
       /\ reqs[i].start - ClaimDeprecationTime(reqs[i].key) <= 120000
       => keys[reqs[i].key].status # "revoked"]_vars

\* C7: getUsableKeys(tier) returns, in the order of the tier's key list, exactly
\* the credentials that are not revoked and are closed, half-open, or open with
\* the cooldown over; it sets those open ones to half-open and changes nothing
\* else: no other field, no other credential, not the key list
C7_GetUsableKeysExact ==
  [][op'.name = "getUsableKeys"
     => /\ op'.ret = SelectSeq(models[op'.arg], LAMBDA id : ClaimUsable(id, now))
        /\ keys' = [id \in DOMAIN keys |->
                      IF /\ id \in Range(models[op'.arg])
                         /\ ClaimUsable(id, now)
                         /\ keys[id].breakerState = "open"
                      THEN [keys[id] EXCEPT !.breakerState = "half"]
                      ELSE keys[id]]
        /\ models' = models
        /\ rotationLog' = rotationLog]_vars

\* getUsableKeys has left out a revoked credential and returned a deprecated
\* one that it found open with the cooldown over
C7_Witness ==
  /\ op.name = "getUsableKeys"
  /\ \E id \in Range(models[op.arg]) \ Range(op.ret) :
       keys[id].status = "revoked"
  /\ \E id \in Range(op.ret) :
       /\ keys[id].status = "deprecated"
       /\ keys[id].breakerState = "half"

\* C8: pickKey(tier) returns null exactly when the tier has no usable
\* credential, and otherwise the usable credential with the least usage, the
\* first of them in the key list on a tie; so a least-used credential that
\* three failures have opened is passed over until its cooldown is over
C8_PickKeyLeastUsed ==
  [][op'.name = "pickKey"
     => LET ids == models[op'.arg]
            usable == {id \in Range(ids) : ClaimUsable(id, now)}
        IN  /\ op'.ret = NULL <=> usable = {}
            /\ op'.ret # NULL
                 => /\ op'.ret \in usable
                    /\ \A id \in usable :
                         \/ keys[op'.ret].usage < keys[id].usage
                         \/ /\ keys[op'.ret].usage = keys[id].usage
                            /\ ClaimPos(ids, op'.ret) <= ClaimPos(ids, id)]_vars

\* pickKey has passed over a less used credential that its third failure
\* opened
C8_Witness ==
  /\ op.name = "pickKey"
  /\ op.ret # NULL
  /\ \E id \in Range(models[op.arg]) :
       /\ keys[id].breakerState = "open"
       /\ keys[id].consecutiveFails = 3
       /\ keys[id].breakerOpenedAt = now
       /\ keys[id].usage < keys[op.ret].usage

\* C9: under every policy, the key that route returns belongs to the model it
\* returns, is not revoked and is not open at the moment of the return
C9_RouteKeyUsable ==
  op.name = "route" /\ op.ret.key # NULL
  => /\ op.ret.key \in Range(models[op.ret.model])
     /\ keys[op.ret.key].status # "revoked"
     /\ keys[op.ret.key].breakerState # "open"

\* the fallback policy has returned a model with an error rate of 1 in the
\* metrics, the other models having nothing but open or revoked keys
C9_Witness ==
  /\ op.name = "route"
  /\ op.arg[2] = "fallback"
  /\ op.ret.key # NULL
  /\ metrics[name(op.ret.model)].requests > 0
  /\ metrics[name(op.ret.model)].errors = metrics[name(op.ret.model)].requests
  /\ \A m \in Tiers \ {op.ret.model} :
       \A id \in Range(models[m]) :
         keys[id].status = "revoked" \/ keys[id].breakerState = "open"

\* C10: for every policy and complexity, route throws if and only if no model
\* has a usable credential at the time of the call
C10_RouteThrowsIffExhausted ==
  [][op'.name = "route"
     => (op'.ret.key = NULL
         <=> \A m \in Tiers :
               \A id \in Range(models[m]) : ~ClaimUsable(id, now))]_vars

\* route has thrown, at the last instant of the cooldown of the open keys
C10_Witness ==
  /\ op.name = "route"
  /\ op.ret.key = NULL
  /\ now > Epoch

\* a tier has a usable credential
ClaimHasUsable(m) == \E id \in Range(models[m]) : ClaimUsable(id, now)

\* the first tier of an order that has a usable credential, "none" if none has
ClaimFirstUsable(order) ==
  LET hits == {i \in DOMAIN order : ClaimHasUsable(order[i])}
  IN  IF hits = {} THEN "none"
      ELSE order[CHOOSE i \in hits : \A j \in hits : i <= j]

\* the preference order of the cost policy, as the specification gives it
ClaimCostOrder(c) ==
  CASE c = "simple" -> <<"mock", "flash", "pro">>
    [] c = "medium" -> <<"flash", "pro", "mock">>
    [] c = "complex" -> <<"pro", "flash", "mock">>

\* C11: under the cost policy route returns the first tier of the preference
\* order of the complexity class that has a usable credential, with a
\* credential of that tier, and throws only when no tier of the order has one
C11_CostFirstUsable ==
  [][op'.name = "route" /\ op'.arg[2] = "cost"
     => /\ op'.ret.model = ClaimFirstUsable(ClaimCostOrder(op'.arg[1]))
        /\ op'.ret.key = NULL <=> op'.ret.model = "none"
        /\ op'.ret.key # NULL => op'.ret.key \in Range(models[op'.ret.model])]_vars

\* the cost policy has escalated to the last tier of the order of a complex
\* request, the two before it having no usable credential
C11_Witness ==
  /\ op.name = "route"
  /\ op.arg = <<"complex", "cost">>
  /\ op.ret.model = "mock"
  /\ op.ret.key # NULL
  /\ \A id \in Range(models["pro"]) \cup Range(models["flash"]) :
       keys[id].status = "revoked" \/ keys[id].breakerState = "open"

\* C12: under the latency policy route returns the tier of least avgLatency
\* among the tiers that have a usable credential, the same tier whatever the
\* complexity class
C12_LatencyLeast ==
  [][op'.name = "route" /\ op'.arg[2] = "latency"
     => /\ op'.ret.key = NULL <=> \A m \in Tiers : ~ClaimHasUsable(m)
        /\ op'.ret.key # NULL
             => /\ ClaimHasUsable(op'.ret.model)
                /\ op'.ret.key \in Range(models[op'.ret.model])
                /\ \A m \in Tiers :
                     ClaimHasUsable(m)
                     => avgLatency(op'.ret.model) <= avgLatency(m)
        /\ \A c \in Complexities :
             route(Store, metrics, c, "latency", now).model = op'.ret.model]_vars

\* the latency policy has returned the slowest tier, the two faster ones
\* having no usable credential
C12_Witness ==
  /\ op.name = "route"
  /\ op.arg[2] = "latency"
  /\ op.ret.model = "pro"
  /\ op.ret.key # NULL
  /\ \A id \in Range(models["mock"]) \cup Range(models["flash"]) :
       keys[id].status = "revoked" \/ keys[id].breakerState = "open"

\* the score of a tier under the fallback policy is ClaimScoreNum / ClaimScoreDen:
\* (credentials not revoked and not open) * (1 - errors / requests), the error
\* rate being 0 when the tier has no requests
ClaimCount(m) ==
  Cardinality({id \in Range(models[m]) :
                 keys[id].status # "revoked" /\ keys[id].breakerState # "open"})

ClaimScoreNum(m) ==
  IF metrics[name(m)].requests = 0 THEN ClaimCount(m)
  ELSE ClaimCount(m) * (metrics[name(m)].requests - metrics[name(m)].errors)

ClaimScoreDen(m) ==
  IF metrics[name(m)].requests = 0 THEN 1 ELSE metrics[name(m)].requests

\* the score of tier a is strictly less than the score of tier b
ClaimScoreLess(a, b) ==
  ClaimScoreNum(a) * ClaimScoreDen(b) < ClaimScoreNum(b) * ClaimScoreDen(a)

\* C13: under the fallback policy route returns a tier that yields a
\* credential and whose score no tier that yields a credential exceeds: a tier
\* of strictly higher score is passed over only if it yields none
C13_FallbackBestScore ==
  [][op'.name = "route" /\ op'.arg[2] = "fallback"
     => /\ op'.ret.key = NULL <=> \A m \in Tiers : ~ClaimHasUsable(m)
        /\ op'.ret.key # NULL
             => /\ ClaimHasUsable(op'.ret.model)
                /\ op'.ret.key \in Range(models[op'.ret.model])
                /\ \A m \in Tiers :
                     ClaimScoreLess(op'.ret.model, m) => ~ClaimHasUsable(m)]_vars

\* the fallback policy has preferred a tier without errors to a tier that has
\* more usable credentials and an error rate strictly between 0 and 1
C13_Witness ==
  /\ op.name = "route"
  /\ op.arg[2] = "fallback"
  /\ op.ret.key # NULL
  /\ \E m \in Tiers :
       /\ ClaimCount(m) > ClaimCount(op.ret.model)
       /\ ClaimScoreLess(m, op.ret.model)
       /\ metrics[name(m)].errors > 0
       /\ metrics[name(m)].errors < metrics[name(m)].requests

\* the outcome records of request i
ClaimRecords(i) == SelectSeq(logs, LAMBDA e : e.userId = i)

\* C14: a request makes at most 3 dispatch attempts, numbered 0..2: after a
\* failed dispatch at attempt n < 2 it is in attempt n + 1 (dispatched, or in
\* Failure because the routing of that attempt found no credential), after a
\* failed dispatch at attempt 2 it is in Failure; and a request whose
\* dispatches all settle reaches Success or Failure
C14_AtMostThreeAttempts ==
  /\ [][\A i \in DOMAIN reqs :
          /\ reqs'[i].pc = "dispatch" => reqs'[i].attempt \in 0..2
          /\ Len(ClaimRecords(i))' <= 3
          /\ op'.name = "resume" /\ op'.arg = <<i, "fail">>
             => IF reqs[i].attempt < 2
                THEN \/ /\ reqs'[i].pc = "dispatch"
                        /\ reqs'[i].attempt = reqs[i].attempt + 1
                     \/ /\ reqs'[i].pc = "done"
                        /\ ~reqs'[i].result.ok
                        /\ \A m \in Tiers : ~ClaimHasUsable(m)'
                ELSE reqs'[i].pc = "done" /\ ~reqs'[i].result.ok]_vars
  /\ \A i \in {1, 2} : reqs[i].pc = "dispatch" ~> reqs[i].pc = "done"

\* a request has ended in Failure after three failed dispatches
C14_Witness ==
  \E i \in DOMAIN reqs :
    /\ reqs[i].pc = "done"
    /\ ~reqs[i].result.ok
    /\ Len(ClaimRecords(i)) = 3
    /\ \A j \in 1..3 : ~ClaimRecords(i)[j].ok

\* the request i is, after the step, where a call of route with this policy on
\* this store puts it: dispatched to the tier and credential route returns, or
\* returned when route throws
ClaimRoutedWith(i, st, complexity, policy) ==
  LET rt == route(st, metrics', complexity, policy, now)
  IN  IF rt.key = NULL THEN reqs'[i].pc = "done"
      ELSE /\ reqs'[i].pc = "dispatch"
           /\ reqs'[i].model = rt.model
           /\ reqs'[i].key = rt.key

\* C15: attempt 0 of a request is routed with the caller's policy, cost when
\* the caller gives none, and every later attempt with the fallback policy
C15_RetriesUseFallback ==
  [][\A i \in DOMAIN reqs :
       /\ op'.name = "handleQuery" /\ op'.arg[1] = i
          => ClaimRoutedWith(i, Store, op'.arg[3],
                             IF op'.arg[2] = "none" THEN "cost" ELSE op'.arg[2])
       /\ op'.name = "resume" /\ op'.arg = <<i, "fail">> /\ reqs[i].attempt < 2
          => ClaimRoutedWith(
               i, [Store EXCEPT !.keys[reqs[i].key] = recordFailure(@, now)],
               reqs[i].complexity, "fallback")]_vars

\* a request made with the latency policy is in a retry, dispatched to a tier
\* that the latency policy would not have returned
C15_Witness ==
  \E i \in DOMAIN reqs :
    /\ reqs[i].pc = "dispatch"
    /\ reqs[i].attempt > 0
    /\ reqs[i].policy = "latency"
    /\ reqs[i].model = "flash"
    /\ ClaimHasUsable("mock")

\* C16: the settling of a dispatch appends exactly one outcome record, with the
\* tier, the credential id and the ok flag of that attempt, in the step that
\* ends the attempt, and no other step appends or removes a record; so a
\* request in attempt n has n records, all failed, and a request that succeeds
\* in its third dispatch has the 3 records failed, failed, succeeded
C16_OneRecordPerDispatch ==
  [][/\ IF op'.name = "resume"
        THEN /\ Len(logs') = Len(logs) + 1
             /\ SubSeq(logs', 1, Len(logs)) = logs
             /\ logs'[Len(logs')].userId = op'.arg[1]
             /\ logs'[Len(logs')].model = name(reqs[op'.arg[1]].model)
             /\ logs'[Len(logs')].keyId = reqs[op'.arg[1]].key
             /\ logs'[Len(logs')].ok = (op'.arg[2] = "ok")
        ELSE logs' = logs
     /\ \A i \in DOMAIN reqs :
          /\ reqs'[i].pc = "dispatch"
             => /\ Len(ClaimRecords(i))' = reqs'[i].attempt
                /\ \A j \in 1..reqs'[i].attempt : ~ClaimRecords(i)'[j].ok
          /\ reqs'[i].pc = "done" /\ reqs'[i].result.ok
             => /\ Len(ClaimRecords(i))' \in 1..3
                /\ \A j \in 1..Len(ClaimRecords(i))' :
                     ClaimRecords(i)'[j].ok <=> j = Len(ClaimRecords(i))']_vars

\* a request has returned Success with 3 records: failed, failed, succeeded
C16_Witness ==
  \E i \in DOMAIN reqs :
    /\ reqs[i].pc = "done"
    /\ reqs[i].result.ok
    /\ Len(ClaimRecords(i)) = 3
    /\ ~ClaimRecords(i)[1].ok
    /\ ~ClaimRecords(i)[2].ok
    /\ ClaimRecords(i)[3].ok

\* C17: when the routing of an attempt finds no usable credential in any tier,
\* the request is in Failure after that step, without a dispatch: the step logs
\* no record and touches no breaker beyond what the failed dispatch before it,
\* if any, has logged and recorded; and a request that has returned makes no
\* further attempt
C17_RouteFailureIsTerminal ==
  [][\A i \in DOMAIN reqs :
       /\ /\ op'.name = "handleQuery" /\ op'.arg[1] = i
          /\ \A m \in Tiers : ~ClaimHasUsable(m)
          => /\ reqs'[i].pc = "done"
             /\ ~reqs'[i].result.ok
             /\ logs' = logs
             /\ metrics' = metrics
             /\ keys' = keys
       /\ /\ op'.name = "resume" /\ op'.arg = <<i, "fail">>
          /\ reqs[i].attempt < 2
          /\ \A m \in Tiers : ~ClaimHasUsable(m)'
          => /\ reqs'[i].pc = "done"
             /\ ~reqs'[i].result.ok
             /\ Len(logs') = Len(logs) + 1
             /\ keys' = [keys EXCEPT ![reqs[i].key] = recordFailure(@, now)]
       /\ reqs[i].pc = "done"
          => /\ reqs'[i] = reqs[i]
             /\ ClaimRecords(i)' = ClaimRecords(i)]_vars

\* the routing of a retry has found no usable credential: the request is in
\* Failure with fewer than 3 dispatches made
C17_Witness ==
  \E i \in DOMAIN reqs :
    /\ op.name = "resume"
    /\ op.arg = <<i, "fail">>
    /\ reqs[i].pc = "done"
    /\ Len(ClaimRecords(i)) \in 1..2
    /\ \A m \in Tiers : ~ClaimHasUsable(m)

\* C18: a request returns ok=true exactly when a dispatch of it has succeeded:
\* the step in which a dispatch succeeds returns the result at once, naming the
\* model, the key and the complexity of that dispatch, with no routing after
\* recordSuccess; a returned request has an ok result exactly when its last
\* record is ok, that record is its only ok record and names the same model,
\* key and complexity; and nothing is routed or dispatched for it afterwards
C18_SuccessIffDispatchSucceeded ==
  [][\A i \in DOMAIN reqs :
       /\ op'.name = "resume" /\ op'.arg = <<i, "ok">>
          => /\ reqs'[i].pc = "done"
             /\ reqs'[i].result.ok
             /\ reqs'[i].result.model = name(reqs[i].model)
             /\ reqs'[i].result.keyId = reqs[i].key
             /\ reqs'[i].result.complexity = reqs[i].complexity
             /\ keys' = [keys EXCEPT ![reqs[i].key] = recordSuccess(@, now)]
       /\ reqs[i].pc # "done" /\ reqs'[i].pc = "done" /\ reqs'[i].result.ok
          => op'.name = "resume" /\ op'.arg = <<i, "ok">>
       /\ reqs'[i].pc = "done"
          => LET recs == ClaimRecords(i)'
                 res == reqs'[i].result
             IN  /\ res.ok <=> \E j \in DOMAIN recs : recs[j].ok
                 /\ \A j \in DOMAIN recs : recs[j].ok => j = Len(recs)
                 /\ res.ok => /\ recs[Len(recs)].model = res.model
                              /\ recs[Len(recs)].keyId = res.keyId
                              /\ recs[Len(recs)].complexity = res.complexity
       /\ reqs[i].pc = "done" /\ reqs[i].result.ok
          => /\ reqs'[i] = reqs[i]
             /\ ClaimRecords(i)' = ClaimRecords(i)]_vars

\* a request has returned Success from a retry, on another key than the one
\* its first dispatch failed on
C18_Witness ==
  \E i \in DOMAIN reqs :
    /\ op.name = "resume"
    /\ op.arg = <<i, "ok">>
    /\ reqs[i].pc = "done"
    /\ reqs[i].result.ok
    /\ Len(ClaimRecords(i)) = 2
    /\ ClaimRecords(i)[1].keyId # reqs[i].result.keyId

\* the message of the last failed dispatch of request i, none when it has had
\* no failed dispatch
ClaimLastDispatchError(recs) ==
  IF recs = <<>> THEN "Unknown failure" ELSE recs[Len(recs)].errorMsg

\* C19 (amended): every handleQuery step and every settled dispatch leaves the
\* request either suspended in a dispatch or returned with a result; a request
\* returned after a failed dispatch or a failed routing has the result
\* ok=false, model and key "none", and its response carries the message of the
\* last failed dispatch of the request, or "Unknown failure" when no dispatch
\* of it has failed: the message of a routing error is never carried
C19_FailureCarriesLastDispatchError ==
  [][\A i \in DOMAIN reqs :
       /\ op'.name \in {"handleQuery", "resume"} /\ op'.arg[1] = i
          => /\ reqs'[i].pc \in {"dispatch", "done"}
             /\ reqs'[i].pc = "done" /\ op'.name = "handleQuery"
                => ~reqs'[i].result.ok
             /\ reqs'[i].pc = "done" /\ op'.arg[2] = "fail"
                => ~reqs'[i].result.ok
       /\ reqs[i].pc # "done" /\ reqs'[i].pc = "done" /\ ~reqs'[i].result.ok
          => /\ reqs'[i].result.model = "none"
             /\ reqs'[i].result.keyId = NULL
             /\ reqs'[i].result.response
                  = "Error: " \o ClaimLastDispatchError(ClaimRecords(i)')
             /\ \A p \in Policies :
                  reqs'[i].result.response # "Error: " \o routeError(p)]_vars

\* a request is in Failure because the routing of its retry has thrown, and
\* its response carries the message of the dispatch that failed before
C19_Witness ==
  \E i \in DOMAIN reqs :
    /\ reqs[i].pc = "done"
    /\ ~reqs[i].result.ok
    /\ Len(ClaimRecords(i)) \in 1..2
    /\ \A m \in Tiers : ~ClaimHasUsable(m)
    /\ reqs[i].result.response
         = "Error: " \o ClaimRecords(i)[Len(ClaimRecords(i))].errorMsg

\* C19 as stated: the response of a request in Failure carries the message of
\* the last error of the request, which is the routing error when the request
\* has ended on a routing that has thrown
C19_Original ==
  [][\A i \in DOMAIN reqs :
       reqs[i].pc # "done" /\ reqs'[i].pc = "done" /\ ~reqs'[i].result.ok
       => reqs'[i].result.response
            = "Error: " \o
              (CASE op'.name = "handleQuery"
                      -> routeError(IF op'.arg[2] = "none" THEN "cost"
                                    ELSE op'.arg[2])
                 [] op'.name = "resume" /\ reqs[i].attempt < MAX_RETRIES
                      -> routeError("fallback")
                 [] OTHER -> ClaimLastDispatchError(ClaimRecords(i)'))]_vars

\* C20: when a dispatch of a request fails and the request is retried, the
\* retry is dispatched to another model than the failed dispatch, and to
\* another key
C20_RetryOnDifferentModel ==
  [][\A i \in DOMAIN reqs :
       /\ op'.name = "resume"
       /\ op'.arg = <<i, "fail">>
       /\ reqs'[i].pc = "dispatch"
       => /\ reqs'[i].model # reqs[i].model
          /\ reqs'[i].key # reqs[i].key]_vars

\* the requests in flight on key id that were dispatched after the cooldown
\* of the key's current opening was over: the probes of the half-open key
ClaimProbes(id) ==
  {i \in DOMAIN reqs :
     /\ reqs[i].pc = "dispatch"
     /\ reqs[i].key = id
     /\ reqs[i].start - keys[id].breakerOpenedAt > BREAKER_COOLDOWN_MS}

\* C21: while the breaker of a key is half-open, at most one request is in
\* flight on that key that was dispatched since the breaker became half-open
C21_OneProbe ==
  \A id \in DOMAIN keys :
    keys[id].breakerState = "half" => Cardinality(ClaimProbes(id)) <= 1

\* the active keys of model m, in store order
ClaimActive(m) ==
  SelectSeq(models[m], LAMBDA id : keys[id].status = "active")

\* C22: rotateKeys on a model without active keys changes nothing: no key is
\* added, removed or changed in any model, and the rotation log is unchanged
C22_RotateWithoutActiveIsNoOp ==
  [][/\ op'.name = "rotateKeys"
     /\ op'.arg \in Tiers
     /\ ClaimActive(op'.arg) = <<>>
     => /\ keys' = keys
        /\ models' = models
        /\ rotationLog' = rotationLog]_vars

\* rotateKeys has returned from a model without active keys while another
\* model has a key
C22_Witness ==
  /\ op.name = "rotateKeys"
  /\ op.arg \in Tiers
  /\ ClaimActive(op.arg) = <<>>
  /\ DOMAIN keys # {}

\* the keys that are in no model any more: pruned by cleanupKeys
ClaimPruned == {id \in DOMAIN keys : \A m \in Tiers : id \notin Range(models[m])}

\* the time at which key id was revoked, 0 when it has not been
ClaimRevokedAt(id) ==
  LET hits == {i \in DOMAIN rotationLog : rotationLog[i].revokedKeyId = id}
  IN  IF hits = {} THEN 0 ELSE rotationLog[CHOOSE i \in hits : TRUE].ts

\* C23: in the state a cleanupKeys call has left, with no time elapsed and
\* nothing else done, a second cleanupKeys call changes nothing: no status
\* changes, no key is pruned and no RotationEvent is appended
C23_CleanupIdempotent ==
  op.name = "cleanupKeys" => cleanupKeys(Store, now) = Store

\* the cleanupKeys call that has just returned has revoked keys and has
\* pruned one of them
C23_Witness ==
  /\ op.name = "cleanupKeys"
  /\ \E id \in ClaimPruned : ClaimRevokedAt(id) = now
  /\ \E id \in DOMAIN keys \ ClaimPruned :
       keys[id].status = "revoked" /\ ClaimRevokedAt(id) = now

\* C24: addKey with a name that is not a configured model throws the
\* unknown-model error and changes nothing, and rotateKeys with such a name
\* returns without an error and changes nothing
C24_UnknownModelHarmless ==
  [][/\ op'.name = "addKey" /\ op'.arg \notin Tiers
        => /\ op'.ret.threw
           /\ op'.ret.error = "Unknown model: " \o op'.arg
           /\ keys' = keys /\ models' = models /\ rotationLog' = rotationLog
     /\ op'.name = "rotateKeys" /\ op'.arg \notin Tiers
        => /\ ~op'.ret.threw
           /\ keys' = keys /\ models' = models /\ rotationLog' = rotationLog]_vars

ClaimOverused(m) ==
  \E id \in Range(models[m]) :
    keys[id].status = "active" /\ keys[id].usage >= MAX_USAGE_BEFORE_ROTATE

\* C26: checkUsageBasedRotation, at whatever time it runs, rotates once every
\* model that has an active key with usage >= 100: one key added, one event
\* logged, and one previously-active key of minimal createdAt deprecated,
\* which need not be the key at the cap; a model without such a key is left
\* as it was
C26_UsageRotatesOncePerModel ==
  [][op'.name = "checkUsageBasedRotation"
     => /\ \A m \in Tiers :
             LET before == Range(ClaimActive(m))
                 events == {i \in DOMAIN rotationLog' :
                              /\ i > Len(rotationLog)
                              /\ rotationLog'[i].modelName = m}
             IN  IF ClaimOverused(m)
                 THEN /\ Len(models'[m]) = Len(models[m]) + 1
                      /\ SubSeq(models'[m], 1, Len(models[m])) = models[m]
                      /\ models'[m][Len(models'[m])] \notin DOMAIN keys
                      /\ keys'[models'[m][Len(models'[m])]] = makeKey(now)
                      /\ Cardinality(events) = 1
                      /\ \E d \in before :
                           /\ \A a \in before :
                                keys[d].createdAt <= keys[a].createdAt
                           /\ keys'[d] = [keys[d] EXCEPT !.status = "deprecated"]
                           /\ \A id \in Range(models[m]) \ {d} :
                                keys'[id] = keys[id]
                           /\ \A i \in events :
                                /\ rotationLog'[i].deprecatedKeyId = d
                                /\ rotationLog'[i].newKeyId
                                     = models'[m][Len(models'[m])]
                 ELSE /\ models'[m] = models[m]
                      /\ \A id \in Range(models[m]) : keys'[id] = keys[id]
                      /\ events = {}
        /\ SubSeq(rotationLog', 1, Len(rotationLog)) = rotationLog]_vars

\* checkUsageBasedRotation has just rotated two models at once, and in one of
\* them the key at the cap is still active: another key was deprecated
C26_Witness ==
  /\ op.name = "checkUsageBasedRotation"
  /\ Len(rotationLog) >= 2
  /\ rotationLog[Len(rotationLog)].ts = now
  /\ rotationLog[Len(rotationLog) - 1].ts = now
  /\ rotationLog[Len(rotationLog)].modelName
       # rotationLog[Len(rotationLog) - 1].modelName
  /\ ClaimOverused(rotationLog[Len(rotationLog)].modelName)
  /\ \A m \in Tiers : Len(models[m]) <= 3

\* the revoked keys of model m, in store order
ClaimRevoked(m) ==
  SelectSeq(models[m], LAMBDA id : keys[id].status = "revoked")

\* C27: a cleanupKeys sweep leaves at most 5 revoked keys in every model; the
\* keys it removes from a model are revoked, as many as exceed 5, and each of
\* them is earlier in the model's key list than every revoked key it keeps;
\* the keys it keeps stay in their order; and no step removes an active or a
\* deprecated key from a model
C27_PruneKeepsFiveNewest ==
  [][\A m \in Tiers :
       LET removed == Range(models[m]) \ Range(models'[m])
           revokedNow == {id \in Range(models[m]) : keys'[id].status = "revoked"}
       IN  /\ \A id \in removed : keys'[id].status = "revoked"
           /\ removed # {} => op'.name = "cleanupKeys"
           /\ op'.name = "cleanupKeys"
              => /\ Len(ClaimRevoked(m)') <= MAX_REVOKED_KEPT
                 /\ models'[m] = SelectSeq(models[m],
                                           LAMBDA id : id \notin removed)
                 /\ Cardinality(removed)
                      = IF Cardinality(revokedNow) > MAX_REVOKED_KEPT
                        THEN Cardinality(revokedNow) - MAX_REVOKED_KEPT
                        ELSE 0
                 /\ \A r \in removed : \A k \in revokedNow \ removed :
                      ClaimPos(models[m], r) < ClaimPos(models[m], k)]_vars

\* the sweep that has just returned has revoked keys and removed one of them,
\* and the model is left with 5 revoked keys, a deprecated key and active keys
C27_Witness ==
  /\ op.name = "cleanupKeys"
  /\ \E m \in Tiers :
       /\ Len(ClaimRevoked(m)) = MAX_REVOKED_KEPT
       /\ ClaimActive(m) # <<>>
       /\ \E id \in Range(models[m]) : keys[id].status = "deprecated"
       /\ \E id \in ClaimPruned :
            /\ ClaimRevokedAt(id) = now
            /\ \E i \in DOMAIN rotationLog :
                 /\ rotationLog[i].revokedKeyId = id
                 /\ rotationLog[i].modelName = m

\* the breaker fields of a key
ClaimBreaker(k) ==
  <<k.breakerState, k.consecutiveFails, k.breakerOpenedAt>>

\* the key on which the step to op' has called recordSuccess or recordFailure,
\* NULL when it has called neither
ClaimRecordedKey ==
  CASE op'.name = "resume" -> reqs[op'.arg[1]].key
    [] op'.name \in {"recordSuccess", "recordFailure"} -> op'.arg
    [] OTHER -> NULL

\* C28 as stated: in every step that is not a recordSuccess or recordFailure
\* call the breaker fields of every key are unchanged
C28_Original ==
  [][ClaimRecordedKey = NULL
     => \A id \in DOMAIN keys : ClaimBreaker(keys'[id]) = ClaimBreaker(keys[id])]_vars

\* C28 (amended): a key on which the step has called neither recordSuccess nor
\* recordFailure keeps its consecutiveFails and its breakerOpenedAt, and
\* keeps its breakerState but for one change: open to half-open, made by a
\* step that checks usability (getUsableKeys, pickKey, the routing of
\* handleQuery), on a key that is not revoked and whose cooldown is over
C28_OnlyRecordAndProbeMutate ==
  [][\A id \in DOMAIN keys \ {ClaimRecordedKey} :
       \/ ClaimBreaker(keys'[id]) = ClaimBreaker(keys[id])
       \/ /\ op'.name \in {"getUsableKeys", "pickKey", "handleQuery", "resume"}
          /\ keys'[id] = [keys[id] EXCEPT !.breakerState = "half"]
          /\ keys[id].breakerState = "open"
          /\ keys[id].status # "revoked"
          /\ now - keys[id].breakerOpenedAt > BREAKER_COOLDOWN_MS]_vars

\* the one getUsableKeys call made so far, with no request made yet, has left
\* a key half-open, its counter and its opening time as recordFailure set them
C28_Witness ==
  /\ op.name = "getUsableKeys"
  /\ calls = 1
  /\ \A i \in DOMAIN reqs : reqs[i].pc = "idle"
  /\ \E id \in Range(models[op.arg]) :
       /\ keys[id].breakerState = "half"
       /\ keys[id].consecutiveFails = BREAKER_FAIL_THRESHOLD
       /\ keys[id].breakerOpenedAt = Epoch

\* C29: recordSuccess on a key adds 1 to its usage, sets lastUsed to now and
\* consecutiveFails to 0, and makes a half-open breaker closed; a closed
\* breaker stays closed, an open one stays open, breakerOpenedAt and the rest
\* of the key are unchanged, and so is every other key
C29_RecordSuccessEffect ==
  [][op'.name = "recordSuccess"
     => LET id == op'.arg
        IN  /\ keys'[id].usage = keys[id].usage + 1
            /\ keys'[id].lastUsed = now
            /\ keys'[id].consecutiveFails = 0
            /\ keys'[id].breakerState
                 = CASE keys[id].breakerState = "half" -> "closed"
                     [] keys[id].breakerState = "closed" -> "closed"
                     [] keys[id].breakerState = "open" -> "open"
            /\ keys'[id].breakerOpenedAt = keys[id].breakerOpenedAt
            /\ keys'[id].status = keys[id].status
            /\ keys'[id].createdAt = keys[id].createdAt
            /\ \A other \in DOMAIN keys \ {id} : keys'[other] = keys[other]
            /\ DOMAIN keys' = DOMAIN keys]_vars

\* recordSuccess has just been called on a key whose breaker is open: the
\* breaker is still open, its failure counter is 0
C29_Witness ==
  /\ op.name = "recordSuccess"
  /\ keys[op.arg].breakerState = "open"
  /\ keys[op.arg].consecutiveFails = 0
  /\ keys[op.arg].usage = 1
  /\ keys[op.arg].lastUsed = now
  /\ keys[op.arg].breakerOpenedAt < now

\* C30: recordFailure on a half-open key makes its breaker open and sets
\* breakerOpenedAt to now, whatever its failure counter, which goes up by 1;
\* the key is unusable from then up to 30 s later; and
\* recordFailure on any key leaves its usage unchanged
C30_FailedProbeReopens ==
  [][op'.name = "recordFailure"
     => LET id == op'.arg
        IN  /\ keys'[id].usage = keys[id].usage
            /\ keys'[id].consecutiveFails = keys[id].consecutiveFails + 1
            /\ keys[id].breakerState = "half"
               => /\ keys'[id].breakerState = "open"
                  /\ keys'[id].breakerOpenedAt = now
                  /\ ~Usable(keys'[id], now)
                  /\ ~Usable(keys'[id], now + BREAKER_COOLDOWN_MS)]_vars

\* recordFailure has just reopened a half-open key whose counter is below the
\* threshold
C30_Witness ==
  /\ op.name = "recordFailure"
  /\ keys[op.arg].breakerState = "open"
  /\ keys[op.arg].breakerOpenedAt = now
  /\ keys[op.arg].consecutiveFails < BREAKER_FAIL_THRESHOLD
  /\ keys[op.arg].usage > 0

\* C31 as stated, for the keys of initRegistry, which all made their
\* transition into open at time Epoch: the first usability check after a tick
\* to a time later than Epoch + 30 s moves each of them that is open to
\* half-open and returns it
C31_Original ==
  [][/\ op.name = "tick"
     /\ op'.name = "getUsableKeys"
     /\ now > Epoch + BREAKER_COOLDOWN_MS
     => \A id \in Range(models[op'.arg]) :
          keys[id].breakerState = "open" /\ keys[id].createdAt = Epoch
          => /\ keys'[id].breakerState = "half"
             /\ id \in Range(op'.ret)]_vars

\* C31 (amended): the cooldown runs from breakerOpenedAt, which recordFailure
\* sets to now on an open key too when the counter is at the threshold or
\* above, and which recordSuccess leaves alone; a usability check made more
\* than 30 s after breakerOpenedAt moves an open key that is not revoked to
\* half-open and returns it, a check made earlier leaves it open and does not
\* return it; and no tick and no timer changes the breaker state of a key
C31_CooldownFromLastStamp ==
  [][/\ op'.name = "getUsableKeys"
        => \A id \in Range(models[op'.arg]) :
             keys[id].breakerState = "open"
             => IF /\ now - keys[id].breakerOpenedAt > BREAKER_COOLDOWN_MS
                   /\ keys[id].status # "revoked"
                THEN keys'[id].breakerState = "half" /\ id \in Range(op'.ret)
                ELSE keys'[id].breakerState = "open" /\ id \notin Range(op'.ret)
     /\ op'.name = "recordFailure" /\ keys[op'.arg].breakerState = "open"
        => /\ keys'[op'.arg].breakerState = "open"
           /\ keys'[op'.arg].breakerOpenedAt
                = IF keys[op'.arg].consecutiveFails + 1 >= BREAKER_FAIL_THRESHOLD
                  THEN now ELSE keys[op'.arg].breakerOpenedAt
     /\ op'.name = "recordSuccess" /\ keys[op'.arg].breakerState = "open"
        => /\ keys'[op'.arg].breakerState = "open"
           /\ keys'[op'.arg].breakerOpenedAt = keys[op'.arg].breakerOpenedAt
     /\ op'.name \in {"tick", "rotationTimer", "cleanupKeys"}
        => \A id \in DOMAIN keys :
             keys'[id].breakerState = keys[id].breakerState]_vars

\* a usability check made more than 30 s after boot has moved one key of the
\* model to half-open and has left the other open: a failure recorded on it
\* after it opened has restarted its cooldown
C31_Witness ==
  /\ op.name = "getUsableKeys"
  /\ now > Epoch + BREAKER_COOLDOWN_MS
  /\ \E a \in Range(op.ret), b \in Range(models[op.arg]) \ Range(op.ret) :
       /\ keys[a].breakerState = "half"
       /\ keys[b].breakerState = "open"
       /\ keys[b].status = "active"
       /\ keys[b].breakerOpenedAt > Epoch
       /\ keys[b].consecutiveFails > BREAKER_FAIL_THRESHOLD

\* the breaker fields and the usage fields of a key
ClaimBreakerFields(k) ==
  <<k.usage, k.lastUsed, k.breakerState, k.consecutiveFails, k.breakerOpenedAt>>

\* C32: rotateKeys, cleanupKeys and checkUsageBasedRotation leave usage,
\* lastUsed, breakerState, consecutiveFails and breakerOpenedAt of every
\* existing key as they were; recordSuccess and recordFailure leave the status
\* of every key and the key list of every model as they were, also when the
\* key they are called on is deprecated, revoked or pruned
C32_LifecycleAndBreakerIndependent ==
  [][/\ op'.name \in {"rotateKeys", "cleanupKeys", "checkUsageBasedRotation"}
        => \A id \in DOMAIN keys :
             ClaimBreakerFields(keys'[id]) = ClaimBreakerFields(keys[id])
     /\ op'.name \in {"recordSuccess", "recordFailure"}
        => /\ models' = models
           /\ DOMAIN keys' = DOMAIN keys
           /\ \A id \in DOMAIN keys : keys'[id].status = keys[id].status]_vars

\* a success has been recorded on a revoked key that cleanupKeys has pruned
\* from its model
C32_Witness ==
  /\ op.name = "recordSuccess"
  /\ keys[op.arg].status = "revoked"
  /\ keys[op.arg].usage > 0
  /\ \A m \in Tiers : op.arg \notin Range(models[m])

\* C33: when requests are served one after another on the closed keys of a
\* model that started with equal usage, the usage counters of the keys of
\* the model never differ by more than 1
C33_RoundRobinEquivalent ==
  \A m \in Tiers :
    \A a, b \in Range(models[m]) : keys[a].usage - keys[b].usage <= 1

\* the third request served by a model has gone to the key the first one
\* used, after the second went to the other key
C33_Witness ==
  /\ op.name = "recordSuccess"
  /\ \E m \in Tiers :
       /\ op.arg = models[m][1]
       /\ keys[models[m][1]].usage = 2
       /\ keys[models[m][2]].usage = 1
       /\ \A id \in Range(models[m]) : keys[id].breakerState = "closed"

\* C34: rotateKeys, cleanupKeys and checkUsageBasedRotation leave the number
\* of active keys of every model as it was, and every model, which
\* initRegistry gave two active keys, has an active key in every state
C34_ActiveCountPreserved ==
  /\ [](\A m \in Tiers : Len(ClaimActive(m)) >= 1)
  /\ [][op'.name \in {"rotateKeys", "cleanupKeys", "checkUsageBasedRotation"}
        => \A m \in Tiers : Len(ClaimActive(m)') = Len(ClaimActive(m))]_vars

\* a usage-based rotation has just deprecated a key of flash that reached the
\* cap, after an earlier deprecated key of flash was revoked, and flash has
\* its two active keys
C34_Witness ==
  /\ op.name = "checkUsageBasedRotation"
  /\ Len(rotationLog) > 0
  /\ LET e == rotationLog[Len(rotationLog)]
     IN  /\ e.ts = now
         /\ e.deprecatedKeyId # NULL
         /\ keys[e.deprecatedKeyId].usage >= MAX_USAGE_BEFORE_ROTATE
  /\ Len(ClaimRevoked("flash")) > 0
  /\ Len(ClaimActive("flash")) = 2
  /\ ~ClaimOverused("flash")

\* C35: a key whose breaker is closed has fewer than 3 consecutive failures
C35_ClosedBelowThreshold ==
  \A id \in DOMAIN keys :
    keys[id].breakerState = "closed"
    => keys[id].consecutiveFails < BREAKER_FAIL_THRESHOLD

\* a failure has just been recorded on a key that is still closed, one
\* failure below the threshold
C35_Witness ==
  /\ op.name = "recordFailure"
  /\ keys[op.arg].breakerState = "closed"
  /\ keys[op.arg].consecutiveFails = BREAKER_FAIL_THRESHOLD - 1

\* the RotationEvents that name key id as deprecatedKeyId, as revokedKeyId
ClaimDeprecations(id) ==
  {i \in DOMAIN rotationLog : rotationLog[i].deprecatedKeyId = id}

ClaimRevocations(id) ==
  {i \in DOMAIN rotationLog : rotationLog[i].revokedKeyId = id}

\* C36: every key that is deprecated or revoked, whether or not its model
\* still holds it, is the deprecatedKeyId of exactly one RotationEvent; every
\* revoked key is the revokedKeyId of exactly one RotationEvent, whose ts is
\* later than the ts of its deprecation event; so the rotation log gives
\* cleanupKeys the deprecation time of every deprecated key
C36_OneEventPerTransition ==
  \A id \in DOMAIN keys :
    /\ keys[id].status \in {"deprecated", "revoked"}
       => Cardinality(ClaimDeprecations(id)) = 1
    /\ keys[id].status = "revoked"
       => /\ Cardinality(ClaimRevocations(id)) = 1
          /\ \A i \in ClaimDeprecations(id), j \in ClaimRevocations(id) :
               rotationLog[j].ts > rotationLog[i].ts
    /\ keys[id].status = "deprecated"
       => deprecatedAt(Store, id) \in {rotationLog[i].ts : i \in DOMAIN rotationLog}

\* a cleanupKeys call has left a key that was just revoked, a key pruned from
\* its model, and a key that is deprecated and in its grace period
C36_Witness ==
  /\ op.name = "cleanupKeys"
  /\ \E a, b, c \in DOMAIN keys :
       /\ keys[a].status = "revoked"
       /\ ClaimRevocations(a) # {}
       /\ \A j \in ClaimRevocations(a) : rotationLog[j].ts = now
       /\ keys[b].status = "revoked"
       /\ \A m \in Tiers : b \notin Range(models[m])
       /\ keys[c].status = "deprecated"

\* the dispatches made with key id that have succeeded
ClaimSuccesses(id) == {j \in DOMAIN logs : logs[j].keyId = id /\ logs[j].ok}

\* C37: however the requests that hold the same key overlap, the usage of
\* every key is the number of successful dispatches made with it (the keys
\* start at usage 0), and the settling of a dispatch records exactly one
\* outcome, on the key of that dispatch: a success adds 1 to its usage and
\* resets its failure counter, a failure adds 1 to its failure counter and
\* leaves its usage, and no other key's usage or failure counter changes;
\* the selection of a key records nothing
C37_NoLostOutcome ==
  /\ [](\A id \in DOMAIN keys : keys[id].usage = Cardinality(ClaimSuccesses(id)))
  /\ [][/\ op'.name = "resume"
           => LET k == reqs[op'.arg[1]].key
              IN  /\ Len(logs') = Len(logs) + 1
                  /\ logs'[Len(logs')].keyId = k
                  /\ IF op'.arg[2] = "ok"
                     THEN /\ keys'[k].usage = keys[k].usage + 1
                          /\ keys'[k].consecutiveFails = 0
                     ELSE /\ keys'[k].usage = keys[k].usage
                          /\ keys'[k].consecutiveFails
                               = keys[k].consecutiveFails + 1
                  /\ \A id \in DOMAIN keys \ {k} :
                       /\ keys'[id].usage = keys[id].usage
                       /\ keys'[id].consecutiveFails = keys[id].consecutiveFails
        /\ op'.name = "handleQuery"
           => \A id \in DOMAIN keys :
                /\ keys'[id].usage = keys[id].usage
                /\ keys'[id].consecutiveFails = keys[id].consecutiveFails]_vars

\* two requests have succeeded with the same key, which the second selected
\* while the first was in flight (served one after the other, the second
\* would have taken the other key of the model, closed and unused), and the
\* usage of the key is 2
C37_Witness ==
  /\ \A i \in {1, 2} : reqs[i].pc = "done" /\ reqs[i].result.ok
  /\ reqs[1].result.keyId = reqs[2].result.keyId
  /\ keys[reqs[1].result.keyId].usage = 2
  /\ \E m \in Tiers :
       /\ reqs[1].result.keyId = models[m][1]
       /\ keys[models[m][2]].usage = 0
       /\ keys[models[m][2]].consecutiveFails = 0
       /\ keys[models[m][2]].breakerState = "closed"

C39_AtMostOneTimerEach == cleanupTimers <= 1

====
